---------------------------- MODULE Spec2Model ----------------------------
(***************************************************************************)
(* A model of the news-homepage backend: the relational store (articles,   *)
(* categories), the handlers that read and write it, and the response each *)
(* handler returns.  Texts are sequences of one-character strings, a       *)
(* nullable column holds Null or Some(v), an optional input field is a     *)
(* key that is or is not in the input record's DOMAIN.                     *)
(*                                                                         *)
(* The store answers ORDER BY with any row order that respects the sort    *)
(* keys: rows with equal keys come back in an order the query engine is    *)
(* free to choose, statement by statement.                                 *)
(***************************************************************************)
EXTENDS Integers, Sequences, FiniteSets, TLC

VARIABLES
    articles,      \* news_articles rows, articles[i].id = i (serial key)
    categories,    \* categories rows, in insertion order
    categorySeq,   \* the last value drawn from the categories id sequence
    storeUp,       \* whether the store answers statements or fails them
    preferences,   \* the user_preferences table: a sequence of rows, by id
    clock,         \* the wall clock read by defaultNow() and new Date()
    created,       \* created[i]: the input createNewsArticle got for article i
    updates,       \* the number of update calls served
    calls,         \* calls[c]: the call client c has in flight, when the
                   \* server serves several calls at once
    op,            \* the handler that ran last ("" before the first call)
    req,           \* its input
    res,           \* its response
    app            \* the state of the client: the App component's hooks,
                   \* its debounce timer and its calls in flight

vars == <<app, storeUp, articles, categories, categorySeq, preferences, clock, created, updates, calls,
          op, req, res>>

(***************************************************************************)
(* Bounds of the model.                                                    *)
(***************************************************************************)
MaxArticles == 2
MaxCategories == 3
MaxClock == 1
MaxCappedNew == 1

(***************************************************************************)
(* Program constants.                                                      *)
(***************************************************************************)
FeaturedCap == 10
DefaultLimit == 20
DefaultOffset == 0
DefaultFeaturedLimit == 5

Languages == {"zh", "en"}

(***************************************************************************)
(* Values.                                                                 *)
(***************************************************************************)
Null == <<>>
Some(v) == <<v>>

Min(a, b) == IF a < b THEN a ELSE b

Has(input, f) == f \in DOMAIN input

\* A record with the single key f when o is Some(v), no key when o is Null.
Opt(f, o) == IF o = Null THEN <<>> ELSE (f :> o[1])

\* A jsonb column keeps the JSON value it was given: a list or a string.
JsonArray(items) == [kind |-> "array", value |-> items]
JsonString(text) == [kind |-> "string", value |-> text]

(***************************************************************************)
(* The query engine: WHERE, ORDER BY, LIMIT and OFFSET.                    *)
(***************************************************************************)
\* k1 sorts strictly before k2: lexicographic on the key lists, larger first.
RECURSIVE KeyBefore(_, _)
KeyBefore(k1, k2) ==
    IF k1 = <<>> THEN FALSE
    ELSE IF k1[1] # k2[1] THEN k1[1] > k2[1]
    ELSE KeyBefore(Tail(k1), Tail(k2))

\* The rows of S that no other row of S sorts strictly before.
Firsts(S, key) == {i \in S : \A j \in S : ~KeyBefore(key[j], key[i])}

\* Every order of the row numbers S that respects the sort keys.
RECURSIVE OrderBy(_, _)
OrderBy(S, key) ==
    IF S = {} THEN {<<>>}
    ELSE UNION {{<<i>> \o s : s \in OrderBy(S \ {i}, key)} : i \in Firsts(S, key)}

\* LIMIT limit OFFSET offset
Window(s, limit, offset) ==
    IF offset >= Len(s) THEN <<>>
    ELSE [i \in 1..Min(limit, Len(s) - offset) |-> s[offset + i]]

\* The rows of table numbered by the sequence s.
Rows(table, s) == [i \in 1..Len(s) |-> table[s[i]]]


(***************************************************************************)
(* Text.  A text is a sequence of characters; ILIKE compares them without  *)
(* regard to case.  In a LIKE pattern % stands for any run of characters,  *)
(* _ for any one character, and a backslash makes the next character       *)
(* stand for itself.                                                       *)
(***************************************************************************)
UpperCase ==
    <<"A", "B", "C", "D", "E", "F", "G", "H", "I", "J", "K", "L", "M",
      "N", "O", "P", "Q", "R", "S", "T", "U", "V", "W", "X", "Y", "Z">>
LowerCase ==
    <<"a", "b", "c", "d", "e", "f", "g", "h", "i", "j", "k", "l", "m",
      "n", "o", "p", "q", "r", "s", "t", "u", "v", "w", "x", "y", "z">>

\* The case folding of ILIKE: every letter to its lower case.
Lower(c) ==
    IF \E i \in 1..26 : UpperCase[i] = c
    THEN LowerCase[CHOOSE i \in 1..26 : UpperCase[i] = c]
    ELSE c

\* Does text t from position i on match pattern p from position j on?
RECURSIVE LikeFrom(_, _, _, _)
LikeFrom(t, p, i, j) ==
    IF j > Len(p) THEN i > Len(t)
    ELSE IF p[j] = "%"
        THEN \/ LikeFrom(t, p, i, j + 1)
             \/ (i <= Len(t) /\ LikeFrom(t, p, i + 1, j))
    ELSE IF p[j] = "_"
        THEN i <= Len(t) /\ LikeFrom(t, p, i + 1, j + 1)
    ELSE IF p[j] = "\\"
        THEN /\ j + 1 <= Len(p)
             /\ i <= Len(t)
             /\ Lower(t[i]) = Lower(p[j + 1])
             /\ LikeFrom(t, p, i + 1, j + 2)
    ELSE /\ i <= Len(t)
         /\ Lower(t[i]) = Lower(p[j])
         /\ LikeFrom(t, p, i + 1, j + 1)

ILike(t, p) == LikeFrom(t, p, 1, 1)

\* A JSON string literal: quotation marks and backslashes are escaped.
RECURSIVE JsonEscape(_)
JsonEscape(t) ==
    IF t = <<>> THEN <<>>
    ELSE (IF t[1] \in {"\"", "\\"} THEN <<"\\", t[1]>> ELSE <<t[1]>>)
         \o JsonEscape(Tail(t))

JsonQuote(t) == <<"\"">> \o JsonEscape(t) \o <<"\"">>

RECURSIVE JsonJoin(_, _)
JsonJoin(items, sep) ==
    IF items = <<>> THEN <<>>
    ELSE IF Len(items) = 1 THEN JsonQuote(items[1])
    ELSE JsonQuote(items[1]) \o sep \o JsonJoin(Tail(items), sep)

\* JSON.stringify of a list of strings.
JsonStringify(items) == <<"[">> \o JsonJoin(items, <<",">>) \o <<"]">>

\* JSON.parse, for the texts that are a list of string literals.
NotJson == [ok |-> FALSE, value |-> <<>>, next |-> 0]

RECURSIVE ParseStringBody(_, _, _)
ParseStringBody(t, i, acc) ==
    IF i > Len(t) THEN NotJson
    ELSE IF t[i] = "\"" THEN [ok |-> TRUE, value |-> acc, next |-> i + 1]
    ELSE IF t[i] = "\\"
        THEN IF i + 1 <= Len(t) /\ t[i + 1] \in {"\"", "\\"}
             THEN ParseStringBody(t, i + 2, Append(acc, t[i + 1]))
             ELSE NotJson
    ELSE ParseStringBody(t, i + 1, Append(acc, t[i]))

RECURSIVE ParseItems(_, _, _)
ParseItems(t, i, acc) ==
    IF i > Len(t) \/ t[i] # "\"" THEN NotJson
    ELSE LET item == ParseStringBody(t, i + 1, <<>>)
         IN  IF ~item.ok \/ item.next > Len(t) THEN NotJson
             ELSE IF t[item.next] = ","
                 THEN ParseItems(t, item.next + 1, Append(acc, item.value))
             ELSE IF t[item.next] = "]" /\ item.next = Len(t)
                 THEN [ok |-> TRUE, value |-> Append(acc, item.value), next |-> 0]
             ELSE NotJson

JsonParse(t) ==
    IF t = <<"[", "]">> THEN [ok |-> TRUE, value |-> <<>>, next |-> 0]
    ELSE IF Len(t) >= 1 /\ t[1] = "[" THEN ParseItems(t, 2, <<>>)
    ELSE NotJson

\* tags::text, the store's text form of the jsonb value.
JsonbText(v) ==
    IF v.kind = "array"
    THEN <<"[">> \o JsonJoin(v.value, <<",", " ">>) \o <<"]">>
    ELSE JsonQuote(v.value)

\* What a SELECT or RETURNING hands to the handler for a stored jsonb
\* value: a stored string that is itself JSON text is parsed once more.
FromDriverAsStored(v) == v
FromDriver(v) ==
    IF v.kind = "string" /\ JsonParse(v.value).ok
    THEN JsonArray(JsonParse(v.value).value)
    ELSE v

\* Array.isArray(article.tags) ? article.tags : []
NormalizeTagsEmptyAlways(v) == <<>>
NormalizeTags(v) == IF v.kind = "array" THEN v.value ELSE <<>>

\* { ...article, tags: normalized }
ToArticle(row) == [row EXCEPT !.tags = NormalizeTags(FromDriver(row.tags))]

MapRows(rows) == [i \in 1..Len(rows) |-> ToArticle(rows[i])]

\* or(ilike(title), ilike(description), ilike(content), tags::text ILIKE):
\* ILIKE on a NULL is not true.
SearchHit(row, pattern) ==
    \/ ILike(row.title, pattern)
    \/ (row.description # Null /\ ILike(row.description[1], pattern))
    \/ (row.content # Null /\ ILike(row.content[1], pattern))
    \/ ILike(JsonbText(row.tags), pattern)

(***************************************************************************)
(* Conditions of a WHERE clause, combined with AND.  eq(column, v) on a    *)
(* nullable column is never true of a NULL.                                *)
(***************************************************************************)
Eq(col, v) == [kind |-> "eq", col |-> col, val |-> v]
Search(pattern) == [kind |-> "search", pattern |-> pattern]

Holds(row, cond) ==
    IF cond.kind = "eq" THEN row[cond.col] = cond.val
    ELSE SearchHit(row, cond.pattern)

\* conditions.length === 1 ? conditions[0] : and(...conditions); no WHERE
\* at all when the list is empty.
Where(table, conds) ==
    {i \in 1..Len(table) : \A k \in 1..Len(conds) : Holds(table[i], conds[k])}

\* The ORDER BY keys of every row, each key sorted descending.
ByPublishedDesc == [i \in 1..Len(articles) |-> <<articles[i].published_at>>]
ByScoreThenPublishedDesc ==
    [i \in 1..Len(articles) |-> <<articles[i].score, articles[i].published_at>>]
BySortOrderDesc == [i \in 1..Len(categories) |-> <<categories[i].sort_order>>]
BySortOrderAsc == [i \in 1..Len(categories) |-> <<0 - categories[i].sort_order>>]

\* Every result a SELECT over news_articles can return.
SelectArticles(conds, key, limit, offset) ==
    {MapRows(Rows(articles, Window(s, limit, offset))) :
        s \in OrderBy(Where(articles, conds), key)}

\* Every result a SELECT over categories can return (no LIMIT).
SelectCategories(conds, key) ==
    {Rows(categories, s) : s \in OrderBy(Where(categories, conds), key)}

Ok(v) == [ok |-> TRUE, value |-> v]
Err(e) == [ok |-> FALSE, error |-> e]

\* catch (error) { console.error(...); throw error; }
SwallowedAsEmpty(error) == Ok(<<>>)
Rethrown(error) == Err(error)

\* The callers whose calls the server may serve at the same time, and the
\* record of a caller that has no call in flight.
Clients == {"c1", "c2"}
NoCall == [pc |-> "idle"]

(***************************************************************************)
(* The client.  App holds its state in hooks; app gathers them with the    *)
(* debounce timer that is set and the calls that are in flight.            *)
(***************************************************************************)
\* The state after the first render and its effects: the homepage is being
\* loaded, and the search effect has set its timer for the empty query.
Mounted ==
    [homepageData |-> Null, searchQuery |-> <<>>, searchResults |-> <<>>,
     isSearching |-> FALSE, selectedCategory |-> Null, language |-> "zh",
     isLoading |-> TRUE,
     loading |-> TRUE,       \* trpc.getHomepageData.query() is in flight
     timer |-> Some([query |-> <<>>, language |-> "zh", category |-> Null]),
     pending |-> {},         \* the searchArticles queries in flight
     issued |-> 0,           \* the number of searchArticles queries sent
     settled |-> Null,       \* the call that settled in the last step
     failed |-> FALSE]       \* whether a searchArticles query has rejected

(***************************************************************************)
(* One call is served at a time: a handler starts when no response is      *)
(* pending, and Respond hands the pending response to the caller.          *)
(***************************************************************************)
Idle == op = ""

Respond ==
    /\ ~Idle
    /\ op' = ""
    /\ req' = <<>>
    /\ res' = <<>>
    /\ UNCHANGED <<app, storeUp, preferences, articles, categories, categorySeq, clock, created, updates, calls>>

(***************************************************************************)
(* createNewsArticle: one INSERT ... RETURNING.                            *)
(***************************************************************************)
InsertedArticle(input) ==
    [id |-> Len(articles) + 1,
     title |-> input.title,
     description |-> input.description,
     content |-> input.content,
     thumbnail_url |-> input.thumbnail_url,
     source_url |-> input.source_url,
     author |-> input.author,
     source |-> input.source,
     score |-> input.score,
     comments_count |-> input.comments_count,
     published_at |-> input.published_at,
     created_at |-> clock,
     updated_at |-> clock,
     is_featured |-> input.is_featured,
     category_id |-> input.category_id,
     language |-> input.language,
     tags |-> JsonArray(input.tags)]

\* createNewsArticleInputSchema: the defaults of the fields left out.
CreateDefaults ==
    [score |-> 0, comments_count |-> 0, is_featured |-> FALSE, tags |-> <<>>]

createNewsArticleInput(raw) == raw @@ CreateDefaults

CreateNewsArticle(inputs, cap) ==
    /\ Idle
    /\ Len(articles) < cap
    /\ \E raw \in inputs :
        LET input == createNewsArticleInput(raw)
        IN  /\ articles' = Append(articles, InsertedArticle(input))
            /\ created' = Append(created, raw)
            /\ op' = "createNewsArticle"
            /\ req' = raw
            /\ res' = Ok(ToArticle(InsertedArticle(input)))
    /\ UNCHANGED <<app, storeUp, preferences, categories, categorySeq, clock, updates, calls>>

(***************************************************************************)
(* updateNewsArticle: updateData is built when the handler is called, with *)
(* the time of that moment, and one UPDATE ... WHERE id = input.id         *)
(* RETURNING is awaited: the statement runs later, after whatever other    *)
(* calls and however much time comes in between.                           *)
(***************************************************************************)
\* The columns written when the input has them, tags apart.
UpdatableColumns ==
    {"title", "description", "content", "thumbnail_url", "author", "score",
     "comments_count", "is_featured", "category_id"}

\* The texts of a list, one after the other with sep in between.
RECURSIVE JoinTexts(_, _)
JoinTexts(items, sep) ==
    IF items = <<>> THEN <<>>
    ELSE IF Len(items) = 1 THEN items[1]
    ELSE items[1] \o sep \o JoinTexts(Tail(items), sep)

\* updateData: updated_at: new Date(), and a column for each field given.
\* Variant: the tags are written as their texts with commas in between.
UpdateDataTagsJoined(input) ==
    [f \in {"updated_at"}
            \cup {g \in UpdatableColumns \cup {"tags"} : Has(input, g)} |->
        IF f = "updated_at" THEN clock
        ELSE IF f = "tags" THEN JsonString(JoinTexts(input.tags, <<",">>))
        ELSE input[f]]
UpdateData(input) ==
    [f \in {"updated_at"}
            \cup {g \in UpdatableColumns \cup {"tags"} : Has(input, g)} |->
        IF f = "updated_at" THEN clock
        ELSE IF f = "tags" THEN JsonString(JsonStringify(input.tags))
        ELSE input[f]]

\* .set(updateData), as the row it makes of the stored row.
UpdatedArticleKeepsTimestamp(row, updateData) ==
    [f \in DOMAIN row |->
        IF f \in DOMAIN updateData /\ f # "updated_at" THEN updateData[f]
        ELSE row[f]]
UpdatedArticle(row, updateData) ==
    [f \in DOMAIN row |->
        IF f \in DOMAIN updateData THEN updateData[f] ELSE row[f]]

\* Array.isArray(article.tags) ? article.tags
\*                             : JSON.parse(article.tags as string || '[]')
UpdateReturn(row) ==
    LET tags == FromDriver(row.tags)
    IN  IF tags.kind = "array" THEN Ok([row EXCEPT !.tags = tags.value])
        ELSE IF tags.value = <<>> THEN Ok([row EXCEPT !.tags = <<>>])
        ELSE IF JsonParse(tags.value).ok
            THEN Ok([row EXCEPT !.tags = JsonParse(tags.value).value])
        ELSE Err("syntax_error")

\* .where(eq(newsArticlesTable.id, input.id)): the rows the UPDATE writes.
UpdateTargetsFirstWhenMissing(input) ==
    IF Where(articles, <<Eq("id", input.id)>>) = {} /\ articles # <<>>
    THEN {1} ELSE Where(articles, <<Eq("id", input.id)>>)
UpdateTargets(input) == Where(articles, <<Eq("id", input.id)>>)

\* updateNewsArticle(input) is called: updateData is built, the statement
\* is sent and awaited.
StartUpdateNewsArticle(callers, inputs, cap) ==
    /\ Idle
    /\ updates < cap
    /\ \E c \in callers, input \in inputs :
        /\ calls[c].pc = "idle"
        /\ calls' = [calls EXCEPT ![c] =
                        [pc |-> "update", op |-> "updateNewsArticle",
                         req |-> input, updateData |-> UpdateData(input)]]
    /\ updates' = updates + 1
    /\ UNCHANGED <<app, storeUp, preferences, articles, categories, categorySeq, clock, created,
                   op, req, res>>

\* The UPDATE runs on the store as it then is, and the handler returns the
\* row written or throws when there is none.
RunUpdateNewsArticle ==
    /\ Idle
    /\ \E c \in Clients :
        /\ calls[c].pc = "update"
        /\ LET input == calls[c].req
               found == UpdateTargets(input)
           IN  /\ articles' = [i \in 1..Len(articles) |->
                                  IF i \in found
                                  THEN UpdatedArticle(articles[i],
                                                      calls[c].updateData)
                                  ELSE articles[i]]
               /\ op' = "updateNewsArticle"
               /\ req' = input
               /\ res' = IF found = {} THEN Err("not_found")
                         ELSE UpdateReturn(articles'[CHOOSE i \in found : TRUE])
        /\ calls' = [calls EXCEPT ![c] = NoCall]
    /\ UNCHANGED <<app, storeUp, preferences, categories, categorySeq, clock, created, updates>>

\* The UPDATE throws: the catch block logs the error and throws it again.
UpdateStatementFails ==
    /\ Idle
    /\ \E c \in Clients :
        /\ calls[c].pc = "update"
        /\ op' = "updateNewsArticle"
        /\ req' = calls[c].req
        /\ res' = Rethrown("store_failure")
        /\ calls' = [calls EXCEPT ![c] = NoCall]
    /\ UNCHANGED <<app, storeUp, preferences, articles, categories, categorySeq, clock, created, updates>>

\* Time passes, between calls and between the steps of a call.
Tick ==
    /\ Idle
    /\ clock < MaxClock
    /\ clock' = clock + 1
    /\ UNCHANGED <<app, storeUp, preferences, articles, categories, categorySeq, created, updates, calls,
                   op, req, res>>

(***************************************************************************)
(* getNewsArticles                                                         *)
(***************************************************************************)
ListConditionsNoCategory(input) ==
    (IF Has(input, "language")
        THEN <<Eq("language", input.language)>> ELSE <<>>)
    \o (IF Has(input, "featured_only") /\ input.featured_only
        THEN <<Eq("is_featured", TRUE)>> ELSE <<>>)
ListConditions(input) ==
    (IF Has(input, "category_id")
        THEN <<Eq("category_id", Some(input.category_id))>> ELSE <<>>)
    \o (IF Has(input, "language")
        THEN <<Eq("language", input.language)>> ELSE <<>>)
    \o (IF Has(input, "featured_only") /\ input.featured_only
        THEN <<Eq("is_featured", TRUE)>> ELSE <<>>)

getNewsArticles(input) ==
    SelectArticles(ListConditions(input), ByPublishedDesc,
                   input.limit, input.offset)

GetNewsArticles(inputs) ==
    /\ Idle
    /\ \E input \in inputs :
        \E out \in getNewsArticles(input) :
            /\ op' = "getNewsArticles"
            /\ req' = input
            /\ res' = Ok(out)
    /\ UNCHANGED <<app, storeUp, preferences, articles, categories, categorySeq, clock, created, updates, calls>>


(***************************************************************************)
(* getFeaturedArticles(limit = 5, language?)                               *)
(***************************************************************************)
FeaturedConditions(input) ==
    <<Eq("is_featured", TRUE)>>
    \o (IF Has(input, "language")
        THEN <<Eq("language", input.language)>> ELSE <<>>)

FeaturedOrderPublishedFirst ==
    [i \in 1..Len(articles) |-> <<articles[i].published_at, articles[i].score>>]
FeaturedOrder == ByScoreThenPublishedDesc

getFeaturedArticles(input) ==
    SelectArticles(FeaturedConditions(input), FeaturedOrder,
                   IF Has(input, "limit") THEN input.limit
                   ELSE DefaultFeaturedLimit, 0)

GetFeaturedArticles(inputs) ==
    /\ Idle
    /\ \E input \in inputs :
        \E out \in getFeaturedArticles(input) :
            /\ op' = "getFeaturedArticles"
            /\ req' = input
            /\ res' = Ok(out)
    /\ UNCHANGED <<app, storeUp, preferences, articles, categories, categorySeq, clock, created, updates, calls>>

(***************************************************************************)
(* getCategories(activeOnly = true)                                        *)
(***************************************************************************)
\* activeOnly defaults to true when the caller passes none.
ActiveOnly(input) ==
    IF Has(input, "activeOnly") THEN input.activeOnly ELSE TRUE

CategoryConditions(input) ==
    IF ActiveOnly(input) THEN <<Eq("is_active", TRUE)>> ELSE <<>>

CategoryOrderDesc == BySortOrderDesc
CategoryOrder == BySortOrderAsc

getCategories(input) ==
    SelectCategories(CategoryConditions(input), CategoryOrder)

GetCategories(inputs) ==
    /\ Idle
    /\ \E input \in inputs :
        \E out \in getCategories(input) :
            /\ op' = "getCategories"
            /\ req' = input
            /\ res' = Ok(out)
    /\ UNCHANGED <<app, storeUp, preferences, articles, categories, categorySeq, clock, created, updates, calls>>

(***************************************************************************)
(* createCategory: one INSERT ... RETURNING; the slug column is UNIQUE.    *)
(* The id sequence advances also when the insert is rejected.              *)
(***************************************************************************)
InsertedCategory(input) ==
    [id |-> categorySeq + 1,
     name |-> input.name,
     name_zh |-> input.name_zh,
     slug |-> input.slug,
     description |-> input.description,
     icon_name |-> input.icon_name,
     sort_order |-> input.sort_order,
     is_active |-> input.is_active,
     created_at |-> clock]

SlugTaken(slug) == \E i \in 1..Len(categories) : categories[i].slug = slug

\* What the INSERT answers, and the table after it.
InsertCategoryResult(input) ==
    IF SlugTaken(input.slug) THEN Err("unique_violation")
    ELSE Ok(InsertedCategory(input))

InsertCategoryRowsNoUnique(input) ==
    Append(categories, InsertedCategory(input))
InsertCategoryRows(input) ==
    IF SlugTaken(input.slug) THEN categories
    ELSE Append(categories, InsertedCategory(input))

CreateCategory(inputs) ==
    /\ Idle
    /\ categorySeq < MaxCategories
    /\ \E input \in inputs :
        /\ op' = "createCategory"
        /\ req' = input
        /\ categorySeq' = categorySeq + 1
        /\ res' = InsertCategoryResult(input)
        /\ categories' = InsertCategoryRows(input)
    /\ UNCHANGED <<app, storeUp, preferences, articles, clock, created, updates, calls>>

(***************************************************************************)
(* getUserPreferences(userId): one SELECT by user_id is awaited; when its  *)
(* answer has arrived the handler returns the row found, or a default that *)
(* is not stored and is stamped with two readings of the clock.            *)
(***************************************************************************)
Themes == {"light", "dark", "system"}

\* .where(eq(userPreferencesTable.user_id, userId))
PreferenceRowsAny(userId) == DOMAIN preferences
PreferenceRows(userId) ==
    {i \in 1..Len(preferences) : preferences[i].user_id = userId}

\* { ...preferences, categories_order: preferences.categories_order as number[] }
ToPreferences(row) ==
    [row EXCEPT !.categories_order = FromDriver(row.categories_order)]

\* created_at: new Date(), updated_at: new Date(): two readings.
DefaultPreferences(userId, createdAt, updatedAt) ==
    [id |-> 0, user_id |-> userId, theme |-> "system", language |-> "zh",
     categories_order |-> JsonArray(<<>>), created_at |-> createdAt,
     updated_at |-> updatedAt]

\* result[0] of the rows found, in whatever order the store gives them;
\* Null when result is empty.
SelectUserPreferences(userId) ==
    IF PreferenceRows(userId) = {} THEN {Null}
    ELSE {Some(preferences[i]) : i \in PreferenceRows(userId)}

\* getUserPreferences(userId) is called and its SELECT runs.
GetUserPreferencesSelectPersisting(callers, userIds) ==
    /\ Idle
    /\ \E c \in callers, userId \in userIds :
        /\ calls[c].pc = "idle"
        /\ \E result \in SelectUserPreferences(userId) :
            /\ calls' = [calls EXCEPT ![c] =
                            [pc |-> "selected", op |-> "getUserPreferences",
                             req |-> [userId |-> userId], result |-> result]]
            /\ preferences' =
                    IF result = Null
                    THEN Append(preferences,
                                DefaultPreferences(userId, clock, clock))
                    ELSE preferences
    /\ UNCHANGED <<app, storeUp, articles, categories, categorySeq, clock, created, updates,
                   op, req, res>>
GetUserPreferencesSelect(callers, userIds) ==
    /\ Idle
    /\ \E c \in callers, userId \in userIds :
        /\ calls[c].pc = "idle"
        /\ \E result \in SelectUserPreferences(userId) :
            calls' = [calls EXCEPT ![c] =
                        [pc |-> "selected", op |-> "getUserPreferences",
                         req |-> [userId |-> userId], result |-> result]]
    /\ UNCHANGED <<app, storeUp, preferences, articles, categories, categorySeq, clock, created, updates,
                   op, req, res>>

\* The answer has arrived: the handler returns the row found, or starts on
\* the default with created_at: new Date().
GetUserPreferencesResult ==
    /\ Idle
    /\ \E c \in Clients :
        /\ calls[c].pc = "selected"
        /\ IF calls[c].result # Null
           THEN /\ op' = "getUserPreferences"
                /\ req' = calls[c].req
                /\ res' = Ok(ToPreferences(calls[c].result[1]))
                /\ calls' = [calls EXCEPT ![c] = NoCall]
           ELSE /\ calls' = [calls EXCEPT ![c] =
                                [@ EXCEPT !.pc = "created_at"]
                                    @@ [created_at |-> clock]]
                /\ UNCHANGED <<op, req, res>>
    /\ UNCHANGED <<app, storeUp, preferences, articles, categories, categorySeq, clock, created, updates>>

\* updated_at: new Date(), and the default is returned.
GetUserPreferencesReturn ==
    /\ Idle
    /\ \E c \in Clients :
        /\ calls[c].pc = "created_at"
        /\ op' = "getUserPreferences"
        /\ req' = calls[c].req
        /\ res' = Ok(DefaultPreferences(calls[c].req.userId,
                                        calls[c].created_at, clock))
        /\ calls' = [calls EXCEPT ![c] = NoCall]
    /\ UNCHANGED <<app, storeUp, preferences, articles, categories, categorySeq, clock, created, updates>>

(***************************************************************************)
(* updateUserPreferences(input): the handler runs no statement of the      *)
(* store.  It returns a value made of its input, the defaults for the      *)
(* fields left out, id 0 and two readings of the clock, and it has no      *)
(* await: nothing else runs between its first line and its return.         *)
(***************************************************************************)
\* input.theme || 'system', input.language || 'zh',
\* input.categories_order || [], created_at: new Date(),
\* updated_at: new Date()
updateUserPreferences(input, createdAt, updatedAt) ==
    [id |-> 0,
     user_id |-> input.user_id,
     theme |-> IF Has(input, "theme") THEN input.theme ELSE "system",
     language |-> IF Has(input, "language") THEN input.language ELSE "zh",
     categories_order |->
        JsonArray(IF Has(input, "categories_order")
                  THEN input.categories_order ELSE <<>>),
     created_at |-> createdAt,
     updated_at |-> updatedAt]

\* The call as a whole; time may pass between the two readings of the clock.
UpdateUserPreferences(inputs) ==
    /\ Idle
    /\ \E input \in inputs, updatedAt \in clock..MaxClock :
        /\ clock' = updatedAt
        /\ op' = "updateUserPreferences"
        /\ req' = input
        /\ res' = Ok(updateUserPreferences(input, clock, updatedAt))
    /\ UNCHANGED <<app, storeUp, preferences, articles, categories, categorySeq, created, updates,
                   calls>>

(***************************************************************************)
(* Rows of user_preferences.  No handler writes the table; its rows are    *)
(* put there by INSERT statements on the table itself, as the repository's *)
(* tests of getUserPreferences do: the id is the next of the serial, both  *)
(* timestamps are defaultNow(), and user_id is unique.                     *)
(***************************************************************************)
\* db.insert(userPreferencesTable).values({ user_id, theme, language,
\* categories_order })
InsertedPreferences(values) ==
    [id |-> Len(preferences) + 1,
     user_id |-> values.user_id,
     theme |-> values.theme,
     language |-> values.language,
     categories_order |-> JsonArray(values.categories_order),
     created_at |-> clock,
     updated_at |-> clock]

\* The INSERT runs when the user id is not stored yet (user_id is unique).
InsertUserPreferences(rows, cap) ==
    /\ Idle
    /\ Len(preferences) < cap
    /\ \E values \in rows :
        /\ \A i \in 1..Len(preferences) :
                preferences[i].user_id # values.user_id
        /\ preferences' = Append(preferences, InsertedPreferences(values))
    /\ UNCHANGED <<app, storeUp, articles, categories, categorySeq, clock, created, updates, calls,
                   op, req, res>>

(***************************************************************************)
(* searchArticles                                                          *)
(***************************************************************************)
\* `%${input.query}%`
SearchPattern(query) == <<"%">> \o query \o <<"%">>

SearchConditions(input) ==
    <<Search(SearchPattern(input.query))>>
    \o (IF Has(input, "category_id")
        THEN <<Eq("category_id", Some(input.category_id))>> ELSE <<>>)
    \o (IF Has(input, "language")
        THEN <<Eq("language", input.language)>> ELSE <<>>)

searchArticles(input) ==
    SelectArticles(SearchConditions(input), ByPublishedDesc,
                   input.limit, input.offset)

SearchArticles(inputs) ==
    /\ Idle
    /\ \E input \in inputs :
        \E out \in searchArticles(input) :
            /\ op' = "searchArticles"
            /\ req' = input
            /\ res' = Ok(out)
    /\ UNCHANGED <<app, storeUp, preferences, articles, categories, categorySeq, clock, created, updates, calls>>

(***************************************************************************)
(* getHomepageData(input?): four statements, one after the other.          *)
(***************************************************************************)
HomepageFeaturedConditionsWithCategory(input) ==
    <<Eq("is_featured", TRUE)>>
    \o (IF Has(input, "language")
        THEN <<Eq("language", input.language)>> ELSE <<>>)
    \o (IF Has(input, "category_id")
        THEN <<Eq("category_id", Some(input.category_id))>> ELSE <<>>)
HomepageFeaturedConditions(input) ==
    <<Eq("is_featured", TRUE)>>
    \o (IF Has(input, "language")
        THEN <<Eq("language", input.language)>> ELSE <<>>)

\* featured_only defaults to false when the input has none.
HomepageLatestConditions(input) ==
    (IF Has(input, "category_id")
        THEN <<Eq("category_id", Some(input.category_id))>> ELSE <<>>)
    \o (IF Has(input, "language")
        THEN <<Eq("language", input.language)>> ELSE <<>>)
    \o (IF Has(input, "featured_only") /\ input.featured_only
        THEN <<Eq("is_featured", TRUE)>> ELSE <<>>)

HomepageCountConditionsWithFeatured(input) == HomepageLatestConditions(input)
HomepageCountConditions(input) ==
    (IF Has(input, "category_id")
        THEN <<Eq("category_id", Some(input.category_id))>> ELSE <<>>)
    \o (IF Has(input, "language")
        THEN <<Eq("language", input.language)>> ELSE <<>>)

HomepageLimit(input) == IF Has(input, "limit") THEN input.limit ELSE DefaultLimit
HomepageOffsetIgnored(input) == 0
HomepageOffset(input) ==
    IF Has(input, "offset") THEN input.offset ELSE DefaultOffset

HomepageFeaturedUncapped(input) ==
    SelectArticles(HomepageFeaturedConditions(input), ByPublishedDesc,
                   Len(articles), 0)
HomepageFeatured(input) ==
    SelectArticles(HomepageFeaturedConditions(input), ByPublishedDesc,
                   FeaturedCap, 0)

HomepageLatest(input) ==
    SelectArticles(HomepageLatestConditions(input), ByPublishedDesc,
                   HomepageLimit(input), HomepageOffset(input))

HomepageCategories == SelectCategories(<<Eq("is_active", TRUE)>>, BySortOrderAsc)

HomepageTotal(input) == Cardinality(Where(articles, HomepageCountConditions(input)))

\* Every response of a call during which no other call writes.
getHomepageData(input) ==
    {[featured_articles |-> f, latest_articles |-> l, categories |-> c,
      total_articles |-> HomepageTotal(input)] :
        f \in HomepageFeatured(input), l \in HomepageLatest(input),
        c \in HomepageCategories}

\* The handler awaits its four statements one after the other outside any
\* transaction, so the statements of other calls may run between any two
\* of them: the call is in flight from its start to its return.
StartGetHomepageData(callers, inputs) ==
    /\ Idle
    /\ \E c \in callers, input \in inputs :
        /\ calls[c].pc = "idle"
        /\ calls' = [calls EXCEPT ![c] =
                        [pc |-> "featured", op |-> "getHomepageData",
                         req |-> input]]
    /\ UNCHANGED <<app, storeUp, preferences, articles, categories, categorySeq, clock, created, updates,
                   op, req, res>>

\* const featuredResults = await db.select()...limit(10).execute()
HomepageSelectFeatured ==
    /\ Idle
    /\ \E c \in Clients :
        /\ calls[c].pc = "featured"
        /\ \E f \in HomepageFeatured(calls[c].req) :
            calls' = [calls EXCEPT ![c] =
                        [@ EXCEPT !.pc = "latest"] @@ [featuredResults |-> f]]
    /\ UNCHANGED <<app, storeUp, preferences, articles, categories, categorySeq, clock, created, updates,
                   op, req, res>>

\* const latestResults = await db.select()...limit(limit).offset(offset)
HomepageSelectLatest ==
    /\ Idle
    /\ \E c \in Clients :
        /\ calls[c].pc = "latest"
        /\ \E l \in HomepageLatest(calls[c].req) :
            calls' = [calls EXCEPT ![c] =
                        [@ EXCEPT !.pc = "categories"] @@ [latestResults |-> l]]
    /\ UNCHANGED <<app, storeUp, preferences, articles, categories, categorySeq, clock, created, updates,
                   op, req, res>>

\* const categoriesResults = await db.select().from(categoriesTable)...
HomepageSelectCategories ==
    /\ Idle
    /\ \E c \in Clients :
        /\ calls[c].pc = "categories"
        /\ \E k \in HomepageCategories :
            calls' = [calls EXCEPT ![c] =
                        [@ EXCEPT !.pc = "count"] @@ [categoriesResults |-> k]]
    /\ UNCHANGED <<app, storeUp, preferences, articles, categories, categorySeq, clock, created, updates,
                   op, req, res>>

\* const totalCountResult = await db.select({ count: count() })...; the
\* handler returns what the four statements gave.
HomepageCount ==
    /\ Idle
    /\ \E c \in Clients :
        /\ calls[c].pc = "count"
        /\ op' = "getHomepageData"
        /\ req' = calls[c].req
        /\ res' = Ok([featured_articles |-> calls[c].featuredResults,
                      latest_articles |-> calls[c].latestResults,
                      categories |-> calls[c].categoriesResults,
                      total_articles |-> HomepageTotal(calls[c].req)])
        /\ calls' = [calls EXCEPT ![c] = NoCall]
    /\ UNCHANGED <<app, storeUp, preferences, articles, categories, categorySeq, clock, created, updates>>

\* The statement the call has come to throws: the catch block logs the
\* error and throws it again.
HomepageStatementFails ==
    /\ Idle
    /\ \E c \in Clients :
        /\ calls[c].pc \in {"featured", "latest", "categories", "count"}
        /\ op' = "getHomepageData"
        /\ req' = calls[c].req
        /\ res' = Rethrown("store_failure")
        /\ calls' = [calls EXCEPT ![c] = NoCall]
    /\ UNCHANGED <<app, storeUp, preferences, articles, categories, categorySeq, clock, created, updates>>


(***************************************************************************)
(* Inputs.  Every input is one the router's schema accepts, with the       *)
(* schema's defaults filled in.                                            *)
(***************************************************************************)
BaseArticleInput ==
    [title |-> <<"a">>, description |-> Null, content |-> Null,
     thumbnail_url |-> Null, source_url |-> "https://e.com/1", author |-> Null,
     source |-> "HN", score |-> 0, comments_count |-> 0, published_at |-> 1,
     is_featured |-> FALSE, category_id |-> Null, language |-> "zh",
     tags |-> <<>>]

CategoryIds == {1}
PublishedTimes == {1, 2}
Scores == {0, 5}
Limits == {1, 2}
Offsets == {0, 1}

OptionOf(S) == {Null} \cup {Some(v) : v \in S}

\* paginationInputSchema: limit, offset and featured_only always present.
PaginationInputs(limits, offsets) ==
    {[limit |-> l, offset |-> o, featured_only |-> f]
        @@ Opt("category_id", c) @@ Opt("language", g) :
        l \in limits, o \in offsets, f \in BOOLEAN,
        c \in OptionOf(CategoryIds), g \in OptionOf(Languages)}

\* getHomepageData's input is optional as a whole.
NoInput == <<>>

HomepageInputs == PaginationInputs(Limits, Offsets) \cup {NoInput}

ListCreateInputs ==
    {[BaseArticleInput EXCEPT !.is_featured = f, !.language = g,
                              !.category_id = c, !.published_at = p] :
        f \in BOOLEAN, g \in Languages, c \in OptionOf(CategoryIds),
        p \in PublishedTimes}

(***************************************************************************)
(* The state after construction: an empty store.                           *)
(***************************************************************************)
Init ==
    /\ articles = <<>>
    /\ categories = <<>>
    /\ categorySeq = 0
    /\ preferences = <<>>
    /\ storeUp = TRUE
    /\ app = Mounted
    /\ clock = 0
    /\ created = <<>>
    /\ updates = 0
    /\ calls = [c \in Clients |-> NoCall]
    /\ op = ""
    /\ req = <<>>
    /\ res = <<>>

(***************************************************************************)
(* Listing: articles are created, then listed and shown on the homepage.   *)
(***************************************************************************)
\* Reads leave the store as it is, so a read issued while another call is
\* between two of its steps changes nothing that call sees: the one-statement
\* reads are issued while no call is in flight, writes at any time.
NoCallInFlight == \A c \in Clients : calls[c].pc = "idle"

NextList ==
    \/ CreateNewsArticle(ListCreateInputs, MaxArticles)
    \/ /\ NoCallInFlight
       /\ GetNewsArticles(PaginationInputs(Limits \cup {DefaultLimit}, Offsets))
    \/ StartGetHomepageData({"c1"}, HomepageInputs)
    \/ HomepageSelectFeatured
    \/ HomepageSelectLatest
    \/ HomepageSelectCategories
    \/ HomepageCount
    \/ Respond

SpecList == Init /\ [][NextList]_vars

\* The steps of a getHomepageData call, as actions: the statement that has
\* just run read the store of the step's first state.
FeaturedRead(c) == calls[c].pc = "featured" /\ calls'[c].pc = "latest"
LatestRead(c) == calls[c].pc = "latest" /\ calls'[c].pc = "categories"
CategoriesRead(c) == calls[c].pc = "categories" /\ calls'[c].pc = "count"
HomepageReturns(c) ==
    calls[c].pc = "count" /\ calls'[c].pc = "idle" /\ res'.ok

\* The response carries what the first three statements read.
ReturnsFeaturedAsRead ==
    \A c \in Clients :
        HomepageReturns(c) =>
            res'.value.featured_articles = calls[c].featuredResults

ReturnsLatestAsRead ==
    \A c \in Clients :
        HomepageReturns(c) =>
            res'.value.latest_articles = calls[c].latestResults

(***************************************************************************)
(* What the claims speak of, stated from the claims and not from the       *)
(* handlers' queries.                                                      *)
(***************************************************************************)
\* Every arrangement of the set S as a sequence.
Arrangements(S) ==
    {f \in [1..Cardinality(S) -> S] :
        \A i, j \in 1..Cardinality(S) : i # j => f[i] # f[j]}

\* The stored articles, as the handlers return them, that pass the filters
\* the input carries.
Passes(a, input, useFeaturedOnly) ==
    /\ Has(input, "category_id") => a.category_id = Some(input.category_id)
    /\ Has(input, "language") => a.language = input.language
    /\ (useFeaturedOnly /\ Has(input, "featured_only") /\ input.featured_only)
        => a.is_featured

Matching(input, useFeaturedOnly) ==
    {i \in 1..Len(articles) : Passes(articles[i], input, useFeaturedOnly)}

\* Every listing of the matching articles by published_at descending.
NewestFirstListings(input) ==
    {[k \in 1..Len(f) |-> [articles[f[k]] EXCEPT !.tags = @.value]] :
        f \in {g \in Arrangements(Matching(input, TRUE)) :
                \A i, j \in 1..Len(g) :
                    i < j => articles[g[i]].published_at
                             >= articles[g[j]].published_at}}

\* page holds the items at positions offset .. offset+limit-1 of full.
IsPage(page, full, limit, offset) ==
    /\ Len(page) <= limit
    /\ Len(page) = (IF Len(full) - offset < 0 THEN 0
                    ELSE Min(limit, Len(full) - offset))
    /\ \A k \in 1..Len(page) : page[k] = full[offset + k]

SameFilters(i1, i2) ==
    /\ Has(i1, "category_id") = Has(i2, "category_id")
    /\ Has(i1, "category_id") => i1.category_id = i2.category_id
    /\ Has(i1, "language") = Has(i2, "language")
    /\ Has(i1, "language") => i1.language = i2.language

\* C2: getHomepageData's total_articles is the number of stored articles
\* matching the category_id and language filters given, and no input that
\* differs only in featured_only, limit or offset gets another total.
C2_TotalCountsCategoryAndLanguageOnly ==
    op = "getHomepageData" =>
        /\ res.value.total_articles = Cardinality(Matching(req, FALSE))
        /\ \A other \in HomepageInputs :
            SameFilters(req, other) =>
                HomepageTotal(other) = res.value.total_articles

\* A featured-only page that is empty while two articles are counted.
C2_Witness ==
    /\ op = "getHomepageData"
    /\ Has(req, "category_id") /\ Has(req, "language")
    /\ req.featured_only /\ req.offset = 0
    /\ res.value.total_articles = 2
    /\ res.value.latest_articles = <<>>

\* C3: latest_articles has at most limit items and holds the items at
\* positions offset .. offset+limit-1 of a newest-first listing of the
\* articles matching category_id, language and featured_only, in the store
\* its statement read.
LatestReadIsTheWindow ==
    \A c \in Clients :
        (LatestRead(c) /\ Has(calls[c].req, "limit")) =>
            LET input == calls[c].req
                page == calls'[c].latestResults
            IN  /\ Len(page) <= input.limit
                /\ \E full \in NewestFirstListings(input) :
                    IsPage(page, full, input.limit, input.offset)

C3_LatestIsTheWindow ==
    [][LatestReadIsTheWindow /\ ReturnsLatestAsRead]_vars

\* The second page of one item, of two matching articles.
C3_Witness ==
    /\ op = "getHomepageData"
    /\ Has(req, "limit") /\ req.limit = 1 /\ req.offset = 1
    /\ Cardinality(Matching(req, TRUE)) = 2
    /\ Len(res.value.latest_articles) = 1
    /\ res.value.latest_articles[1].published_at = 1
    /\ \E i \in Matching(req, TRUE) : articles[i].published_at = 2

\* C6: getNewsArticles returns the window [offset, offset+limit) of a
\* newest-first listing of exactly the articles that pass every filter
\* supplied, and of all articles when none is supplied.
C6_ListIsTheFilteredWindow ==
    op = "getNewsArticles" =>
        \E full \in NewestFirstListings(req) :
            IsPage(res.value, full, req.limit, req.offset)

\* A listing under all three filters that leaves one stored article out.
C6_Witness ==
    /\ op = "getNewsArticles"
    /\ Has(req, "category_id") /\ Has(req, "language") /\ req.featured_only
    /\ req.offset = 0
    /\ Len(articles) = 2
    /\ Len(res.value) = 1


(***************************************************************************)
(* The carousel: a store that already holds as many featured articles as   *)
(* the homepage shows, to which more articles are added.                   *)
(***************************************************************************)
SeedArticles ==
    [i \in 1..FeaturedCap |->
        [id |-> i, title |-> <<"a">>, description |-> Null, content |-> Null,
         thumbnail_url |-> Null, source_url |-> "https://e.com/1",
         author |-> Null, source |-> "HN", score |-> 0, comments_count |-> 0,
         published_at |-> i + 1, created_at |-> 0, updated_at |-> 0,
         is_featured |-> TRUE, category_id |-> Null, language |-> "zh",
         tags |-> JsonArray(<<>>)]]

\* As old as the oldest seeded article, or newer than all of them.
CapPublishedTimes == {2, FeaturedCap + 2}

CapCreateInputs ==
    {[BaseArticleInput EXCEPT !.is_featured = f, !.language = g,
                              !.category_id = c, !.published_at = p] :
        f \in BOOLEAN, g \in Languages, c \in OptionOf(CategoryIds),
        p \in CapPublishedTimes}

CapHomepageInputs == PaginationInputs({1, DefaultLimit}, Offsets) \cup {NoInput}

InitCap ==
    /\ articles = SeedArticles
    /\ categories = <<>>
    /\ categorySeq = 0
    /\ preferences = <<>>
    /\ storeUp = TRUE
    /\ app = Mounted
    /\ clock = 0
    /\ created = [i \in 1..FeaturedCap |->
                    [BaseArticleInput EXCEPT !.is_featured = TRUE,
                                             !.published_at = i + 1]]
    /\ updates = 0
    /\ calls = [c \in Clients |-> NoCall]
    /\ op = ""
    /\ req = <<>>
    /\ res = <<>>

NextCap ==
    \/ CreateNewsArticle(CapCreateInputs, FeaturedCap + MaxCappedNew)
    \/ StartGetHomepageData({"c1"}, CapHomepageInputs)
    \/ HomepageSelectFeatured
    \/ HomepageSelectLatest
    \/ HomepageSelectCategories
    \/ HomepageCount
    \/ Respond

SpecCap == InitCap /\ [][NextCap]_vars

SameLanguage(i1, i2) ==
    /\ Has(i1, "language") = Has(i2, "language")
    /\ Has(i1, "language") => i1.language = i2.language

FeaturedReadDependsOnLanguageOnly ==
    \A c \in Clients :
        FeaturedRead(c) =>
            LET mine == HomepageFeatured(calls[c].req)
            IN  /\ calls'[c].featuredResults \in mine
                /\ \A other \in CapHomepageInputs :
                    SameLanguage(calls[c].req, other)
                        => HomepageFeatured(other) = mine

\* C1: the featured_articles returned for an input are what the store its
\* statement read can return for every other input with the same language
\* filter, whatever its category_id, limit, offset and featured_only.
C1_FeaturedDependsOnLanguageOnly ==
    [][FeaturedReadDependsOnLanguageOnly /\ ReturnsFeaturedAsRead]_vars

\* A full carousel, returned for a category filter that none of its articles
\* passes and a window that starts at the second article.
C1_Witness ==
    /\ op = "getHomepageData"
    /\ Has(req, "category_id") /\ req.offset = 1 /\ req.limit = 1
    /\ Len(res.value.featured_articles) = FeaturedCap
    /\ \A k \in 1..FeaturedCap :
        res.value.featured_articles[k].category_id # Some(req.category_id)
    /\ \E i \in 1..Len(articles) : articles[i].category_id = Some(req.category_id)

FeaturedReadAreTheNewestTen ==
    \A c \in Clients :
        FeaturedRead(c) =>
            LET input == calls[c].req
                f == calls'[c].featuredResults
                shown == {f[k].id : k \in 1..Len(f)}
            IN  /\ Len(f) <= 10
                /\ Cardinality(shown) = Len(f)
                /\ \A k \in 1..Len(f) :
                    /\ f[k].id \in 1..Len(articles)
                    /\ f[k] = [articles[f[k].id] EXCEPT !.tags = @.value]
                    /\ f[k].is_featured
                    /\ Has(input, "language") => f[k].language = input.language
                /\ \A j, k \in 1..Len(f) :
                    j < k => f[j].published_at >= f[k].published_at
                /\ \A i \in 1..Len(articles) :
                    (/\ i \notin shown
                     /\ articles[i].is_featured
                     /\ Has(input, "language")
                            => articles[i].language = input.language)
                    => \A k \in 1..Len(f) :
                        articles[i].published_at <= f[k].published_at

\* C4: featured_articles holds stored articles that are featured and in the
\* requested language, at most 10 of them, newest first, and no featured
\* article left out is newer than one that is shown, in the store its
\* statement read.
C4_FeaturedAreTheNewestTen ==
    [][FeaturedReadAreTheNewestTen /\ ReturnsFeaturedAsRead]_vars

\* Ten articles shown in the requested language and an eleventh, as old as
\* the oldest one shown, left out.
C4_Witness ==
    /\ op = "getHomepageData"
    /\ Has(req, "language")
    /\ Len(res.value.featured_articles) = 10
    /\ \E i \in 1..Len(articles) :
        /\ articles[i].is_featured
        /\ articles[i].language = req.language
        /\ \A k \in 1..10 : res.value.featured_articles[k].id # i
        /\ articles[i].published_at = res.value.featured_articles[10].published_at


(***************************************************************************)
(* The ranked carousel: getFeaturedArticles over articles that differ in   *)
(* score, publish time, language and featured flag.                        *)
(***************************************************************************)
MaxRanked == 3

RankedCreateInputs ==
    {[BaseArticleInput EXCEPT !.is_featured = f, !.language = g,
                              !.score = c, !.published_at = p] :
        f \in BOOLEAN, g \in Languages, c \in Scores, p \in PublishedTimes}

\* getFeaturedArticles(limit?, language?)
FeaturedInputs ==
    {Opt("limit", l) @@ Opt("language", g) :
        l \in OptionOf(Limits), g \in OptionOf(Languages)}

NextRanked ==
    \/ CreateNewsArticle(RankedCreateInputs, MaxRanked)
    \/ GetFeaturedArticles(FeaturedInputs)
    \/ Respond

SpecRanked == Init /\ [][NextRanked]_vars

\* C5: getFeaturedArticles returns at most limit stored articles, each one
\* featured and in the language supplied, by score descending and, for
\* equal scores, by published_at descending.
C5_FeaturedRankedByScoreThenPublished ==
    op = "getFeaturedArticles" =>
        LET f == res.value
        IN  /\ Len(f) <= (IF Has(req, "limit") THEN req.limit ELSE 5)
            /\ \A k \in 1..Len(f) :
                /\ f[k].id \in 1..Len(articles)
                /\ f[k] = [articles[f[k].id] EXCEPT !.tags = @.value]
                /\ f[k].is_featured
                /\ Has(req, "language") => f[k].language = req.language
            /\ \A j, k \in 1..Len(f) :
                j < k =>
                    \/ f[j].score > f[k].score
                    \/ /\ f[j].score = f[k].score
                       /\ f[j].published_at >= f[k].published_at

\* Two featured articles with the same score come back newest first, the
\* older one created first, while a higher-scored article that is not
\* featured stays out.
C5_Witness ==
    /\ op = "getFeaturedArticles"
    /\ Len(res.value) = 2
    /\ res.value[1].score = res.value[2].score
    /\ res.value[1].published_at > res.value[2].published_at
    /\ res.value[1].id > res.value[2].id
    /\ \E i \in 1..Len(articles) :
        /\ ~articles[i].is_featured
        /\ articles[i].score > res.value[1].score

(***************************************************************************)
(* Categories: created, then listed.                                       *)
(***************************************************************************)
Slugs == {"s1", "s2", "s3"}
SortOrders == {0, 1}

CategoryInputs ==
    {[name |-> "Tech", name_zh |-> Null, slug |-> g, description |-> Null,
      icon_name |-> Null, sort_order |-> o, is_active |-> a] :
        g \in Slugs, o \in SortOrders, a \in BOOLEAN}

\* getCategories(activeOnly?)
GetCategoriesInputs == {Opt("activeOnly", a) : a \in OptionOf(BOOLEAN)}

NextCategories ==
    \/ CreateCategory(CategoryInputs)
    \/ GetCategories(GetCategoriesInputs)
    \/ Respond

SpecCategories == Init /\ [][NextCategories]_vars

\* C8: getCategories returns each stored row with is_active = true once,
\* and no other, when activeOnly is true or absent, and each stored row
\* once when it is false, by sort_order ascending.
C8_CategoriesFilteredAndAscending ==
    op = "getCategories" =>
        LET c == res.value
            wanted == {i \in 1..Len(categories) :
                        (Has(req, "activeOnly") /\ ~req.activeOnly)
                        \/ categories[i].is_active}
        IN  /\ Len(c) = Cardinality(wanted)
            /\ {c[k] : k \in 1..Len(c)} = {categories[i] : i \in wanted}
            /\ \A j, k \in 1..Len(c) :
                j < k => c[j].sort_order <= c[k].sort_order

\* The default call leaves an inactive row out; the rows it returns were
\* inserted in the opposite order.
C8_Witness ==
    /\ op = "getCategories"
    /\ ~Has(req, "activeOnly")
    /\ Len(categories) = 3
    /\ Len(res.value) = 2
    /\ res.value[1].sort_order < res.value[2].sort_order
    /\ res.value[1].id > res.value[2].id


(***************************************************************************)
(* Search: articles with text in their columns, then searched.             *)
(***************************************************************************)
MaxSearched == 2

\* description and content of an article.
SearchBodies ==
    {[description |-> Null, content |-> Null],
     [description |-> Some(<<"_", "a">>), content |-> Null],
     [description |-> Null, content |-> Some(<<"b">>)]}

\* language and category of an article.
SearchPlaces ==
    {[language |-> "zh", category_id |-> Null],
     [language |-> "en", category_id |-> Some(1)]}

SearchCreateInputs ==
    {[BaseArticleInput EXCEPT !.title = t, !.description = b.description,
                              !.content = b.content, !.tags = g,
                              !.language = w.language,
                              !.category_id = w.category_id,
                              !.published_at = p] :
        t \in {<<"A", "b">>, <<"%">>}, b \in SearchBodies,
        g \in {<<>>, <<<<"a">>>>}, w \in SearchPlaces, p \in PublishedTimes}

SearchQueries ==
    {<<c>> : c \in {"a", "B", "%", "_"}}
    \cup {<<"a", "b">>, <<"b", "a">>, <<"_", "a">>, <<"a", "_">>,
          <<"%", "b">>, <<"[", "]">>}

\* searchQuerySchema: limit and offset always present, query not empty.
SearchInputs ==
    {[query |-> q, limit |-> w.limit, offset |-> w.offset]
        @@ Opt("category_id", c) @@ Opt("language", g) :
        q \in SearchQueries,
        w \in {[limit |-> DefaultLimit, offset |-> 0], [limit |-> 1, offset |-> 1]},
        c \in OptionOf(CategoryIds), g \in OptionOf(Languages)}

NextSearch ==
    \/ CreateNewsArticle(SearchCreateInputs, MaxSearched)
    \/ SearchArticles(SearchInputs)
    \/ Respond

SpecSearch == Init /\ [][NextSearch]_vars

\* q occurs in t as a substring, case ignored.
Contains(t, q) ==
    \E i \in 1..(Len(t) - Len(q) + 1) :
        \A k \in 1..Len(q) : Lower(t[i + k - 1]) = Lower(q[k])

\* The query occurs in the title, the description, the content or the
\* serialized tag list.
Mentions(row, q) ==
    \/ Contains(row.title, q)
    \/ (row.description # Null /\ Contains(row.description[1], q))
    \/ (row.content # Null /\ Contains(row.content[1], q))
    \/ Contains(JsonbText(row.tags), q)

\* Every newest-first listing of the articles that mention the query and
\* pass the category_id and language filters.
SearchListings(input) ==
    LET hits == {i \in Matching(input, FALSE) : Mentions(articles[i], input.query)}
    IN  {[k \in 1..Len(f) |-> [articles[f[k]] EXCEPT !.tags = @.value]] :
            f \in {g \in Arrangements(hits) :
                    \A i, j \in 1..Len(g) :
                        i < j => articles[g[i]].published_at
                                 >= articles[g[j]].published_at}}

IsSubstringSearch ==
    \E full \in SearchListings(req) :
        IsPage(res.value, full, req.limit, req.offset)

\* C7: searchArticles returns the limit/offset window of a newest-first
\* listing of exactly the articles that mention the query, case ignored, in
\* title, description, content or serialized tags and pass the category_id
\* and language filters, for every query, also one holding % or _.
C7_SearchIsSubstringSearch ==
    op = "searchArticles" => IsSubstringSearch

\* For a query without %, _ and backslash the search is the substring search.
C7_LiteralQueriesAreSubstringSearch ==
    (/\ op = "searchArticles"
     /\ \A k \in 1..Len(req.query) : req.query[k] \notin {"%", "_", "\\"})
    => IsSubstringSearch

(***************************************************************************)
(* Tags: articles are created with and without a tag list and read back    *)
(* by every handler that returns articles.                                 *)
(***************************************************************************)
MaxTagged == 2

TagLists ==
    {<<>>, <<<<"a">>>>, <<<<"a">>, <<"b">>>>, <<<<"b">>, <<"a">>>>,
     <<<<"a">>, <<"a">>>>, <<<<"\"">>, <<"a", "\\">>>>}

\* The input as the caller sends it: tags may be left out.
TaggedCreateInputs ==
    {[f \in DOMAIN BaseArticleInput \ {"tags"} |->
         IF f = "is_featured" THEN x ELSE BaseArticleInput[f]]
         @@ Opt("tags", t) :
        x \in BOOLEAN, t \in OptionOf(TagLists)}

TaggedListInputs == PaginationInputs({DefaultLimit}, {0})

TaggedSearchInputs ==
    {[query |-> <<"a">>, limit |-> DefaultLimit, offset |-> 0]}

NextTags ==
    \/ CreateNewsArticle(TaggedCreateInputs, MaxTagged)
    \/ NoCallInFlight /\ GetNewsArticles(TaggedListInputs)
    \/ StartGetHomepageData({"c1"}, {NoInput})
    \/ HomepageSelectFeatured
    \/ HomepageSelectLatest
    \/ HomepageSelectCategories
    \/ HomepageCount
    \/ NoCallInFlight /\ GetFeaturedArticles({NoInput})
    \/ NoCallInFlight /\ SearchArticles(TaggedSearchInputs)
    \/ Respond

SpecTags == Init /\ [][NextTags]_vars

\* The tag list an article was created with; none given is the empty list.
TagsGiven(raw) == IF Has(raw, "tags") THEN raw.tags ELSE <<>>

ReadBack(list) ==
    \A k \in 1..Len(list) : list[k].tags = TagsGiven(created[list[k].id])

\* C9: createNewsArticle returns the tag list it was given, in order, and
\* getNewsArticles, getHomepageData, getFeaturedArticles and searchArticles
\* return every article with the tag list it was created with; an article
\* created without tags has the empty list.
C9_TagsReadBackAsCreated ==
    /\ op = "createNewsArticle" => res.value.tags = TagsGiven(req)
    /\ op \in {"getNewsArticles", "getFeaturedArticles", "searchArticles"}
        => ReadBack(res.value)
    /\ op = "getHomepageData"
        => /\ ReadBack(res.value.featured_articles)
           /\ ReadBack(res.value.latest_articles)

\* The homepage shows a featured article created with two tags and one
\* created without a tag list.
C9_Witness ==
    /\ op = "getHomepageData"
    /\ Len(res.value.featured_articles) = 2
    /\ \E k \in 1..2 : Len(res.value.featured_articles[k].tags) = 2
    /\ \E k \in 1..2 : ~Has(created[res.value.featured_articles[k].id], "tags")


(***************************************************************************)
(* Updates: articles are created, time passes, and articles are updated    *)
(* by id with payloads that supply none, one or two of the fields.         *)
(***************************************************************************)
MaxUpdated == 2
MaxUpdates == 1

UpdateCreateInputs ==
    {BaseArticleInput,
     [BaseArticleInput EXCEPT !.description = Some(<<"c">>),
                              !.content = Some(<<"c">>),
                              !.thumbnail_url = Some("https://e.com/1.png"),
                              !.author = Some("Li"), !.score = 5,
                              !.comments_count = 5, !.is_featured = TRUE,
                              !.category_id = Some(1), !.language = "en",
                              !.tags = <<<<"a">>>>]}

\* One supplied field; a nullable field is supplied as null or as a value.
SuppliedFields ==
    {"title" :> <<"b">>, "score" :> 7, "comments_count" :> 3}
    \cup {"description" :> v : v \in OptionOf({<<"d">>})}
    \cup {"content" :> v : v \in OptionOf({<<"d">>})}
    \cup {"thumbnail_url" :> v : v \in OptionOf({"https://e.com/2.png"})}
    \cup {"author" :> v : v \in OptionOf({"Wu"})}
    \cup {"is_featured" :> v : v \in BOOLEAN}
    \cup {"category_id" :> v : v \in OptionOf({2})}
    \cup {"tags" :> v : v \in {<<>>, <<<<"b">>, <<"a">>>>}}

UpdatePayloads ==
    {<<>>} \cup SuppliedFields
    \cup {("title" :> <<"b">>) @@ ("tags" :> <<<<"b">>>>),
          ("description" :> Null) @@ ("score" :> 7),
          ("is_featured" :> FALSE) @@ ("category_id" :> Null)}

\* updateNewsArticleInputSchema: id and any of the updatable fields.
UpdateInputs ==
    {("id" :> i) @@ p : i \in {2, 3}, p \in UpdatePayloads}

NextUpdate ==
    \/ CreateNewsArticle(UpdateCreateInputs, MaxUpdated)
    \/ StartUpdateNewsArticle({"c2"}, UpdateInputs, MaxUpdates)
    \/ RunUpdateNewsArticle
    \/ Tick
    \/ Respond

SpecUpdate == Init /\ [][NextUpdate]_vars

\* What the update of input makes of the stored article old, said field
\* by field: new is the stored article afterwards, out the one returned.
UpdateFrame(old, new, out, input, now) ==
    /\ \A f \in UpdatableColumns :
            new[f] = IF Has(input, f) THEN input[f] ELSE old[f]
    /\ IF Has(input, "tags")
       THEN out.tags = input.tags /\ ToArticle(new).tags = input.tags
       ELSE new.tags = old.tags
    /\ \A f \in {"id", "source_url", "source", "published_at", "language",
                 "created_at"} : new[f] = old[f]
    /\ new.updated_at = now
    /\ out = [new EXCEPT !.tags = out.tags]

\* The steps of an updateNewsArticle call, as actions.
UpdateCalled(c) == calls[c].pc = "idle" /\ calls'[c].pc = "update"
UpdateRan(c) == calls[c].pc = "update" /\ calls'[c].pc = "idle"

\* C10: a successful updateNewsArticle sets on the article with the id the
\* supplied fields to the supplied values (null included), sets updated_at
\* to the time of the call whatever is supplied, and leaves every other
\* field of the article and every other article as it was when the UPDATE
\* ran.
C10_UpdateChangesExactlyTheSuppliedFields ==
    [][\A c \in Clients :
        /\ UpdateCalled(c) => calls'[c].updateData.updated_at = clock
        /\ (UpdateRan(c) /\ res'.ok)
            => /\ req' = calls[c].req
               /\ Len(articles') = Len(articles)
               /\ req'.id \in 1..Len(articles)
               /\ \A i \in 1..Len(articles) :
                    IF i = req'.id
                    THEN UpdateFrame(articles[i], articles'[i], res'.value,
                                     req', calls[c].updateData.updated_at)
                    ELSE articles'[i] = articles[i]]_vars

\* What the claim does not say and the code does not give: updated_at is
\* the time of the call, not of the UPDATE, so a call made before the
\* article was created, or before another update of it, leaves updated_at
\* earlier than created_at, or earlier than it was.
UpdatedAtNotBeforeCreatedAt ==
    \A i \in 1..Len(articles) :
        articles[i].updated_at >= articles[i].created_at

\* An update that supplies the id alone has moved updated_at of the second
\* of two articles past its created_at.
C10_Witness ==
    /\ op = "updateNewsArticle"
    /\ res.ok
    /\ DOMAIN req = {"id"}
    /\ req.id = 2
    /\ Len(articles) = 2
    /\ articles[2].updated_at > articles[2].created_at
    /\ articles[1].updated_at = articles[1].created_at


\* C11: updateNewsArticle with an id that no stored article has rejects
\* with the not-found error and leaves every stored article as it was.
C11_UpdateOfMissingIdRejects ==
    [][(/\ Idle
        /\ op' = "updateNewsArticle"
        /\ \A i \in 1..Len(articles) : articles[i].id # req'.id)
        => /\ res' = Err("not_found")
           /\ articles' = articles]_vars

\* An update that supplies a title for an id beyond the two stored articles
\* was rejected.
C11_Witness ==
    /\ op = "updateNewsArticle"
    /\ ~res.ok
    /\ res.error = "not_found"
    /\ Len(articles) = 2
    /\ req.id = 3
    /\ Has(req, "title")

(***************************************************************************)
(* Concurrent createCategory calls.  The handler awaits one statement, so  *)
(* a call is in flight from its start until its INSERT has run, and the    *)
(* calls of other clients may start and run in between.                    *)
(***************************************************************************)
InFlight == {c \in Clients : calls[c].pc = "started"}

\* createCategory(input) is called: nothing has touched the store yet.
\* rivals and free record what the caller could see at that moment.
StartCreateCategory(inputs) ==
    /\ \E c \in Clients, input \in inputs :
        /\ calls[c].pc = "idle"
        /\ calls' = [calls EXCEPT ![c] =
                        [pc |-> "started", op |-> "createCategory",
                         req |-> input, rivals |-> InFlight,
                         free |-> ~SlugTaken(input.slug)]]
    /\ UNCHANGED <<app, storeUp, preferences, articles, categories, categorySeq, clock, created, updates,
                   op, req, res>>

\* await db.insert(categoriesTable).values(...).returning().execute()
RunCreateCategory ==
    /\ categorySeq < MaxCategories
    /\ \E c \in InFlight :
        /\ calls[c].op = "createCategory"
        /\ categorySeq' = categorySeq + 1
        /\ categories' = InsertCategoryRows(calls[c].req)
        /\ calls' = [calls EXCEPT ![c] =
                        [@ EXCEPT !.pc = "done"]
                            @@ [res |-> InsertCategoryResult(calls[c].req)]]
    /\ UNCHANGED <<app, storeUp, preferences, articles, clock, created, updates, op, req, res>>

\* The caller has its answer; its call is no longer any call's rival.
Return ==
    /\ \E c \in Clients :
        /\ calls[c].pc = "done"
        /\ calls' = [d \in Clients |->
                        IF d = c THEN NoCall
                        ELSE IF calls[d].pc = "idle" THEN calls[d]
                        ELSE [calls[d] EXCEPT !.rivals = @ \ {c}]]
    /\ UNCHANGED <<app, storeUp, preferences, articles, categories, categorySeq, clock, created, updates,
                   op, req, res>>

\* Calls that differ in slug and in one more column.
RacingCategoryInputs ==
    {c \in CategoryInputs : c.slug \in {"s1", "s2"} /\ c.sort_order = 0}

NextSlugs ==
    \/ StartCreateCategory(RacingCategoryInputs)
    \/ RunCreateCategory
    \/ Return

SpecSlugs == Init /\ [][NextSlugs]_vars

Done == {c \in Clients : calls[c].pc = "done"}

\* Two finished calls that were in flight together for the same slug, which
\* was not stored when the second of them started.
RacedForFreeSlug(c, d) ==
    /\ c \in Done /\ d \in Done
    /\ d \in calls[c].rivals
    /\ calls[c].req.slug = calls[d].req.slug
    /\ calls[c].free

\* C12: an INSERT of a stored slug answers with the uniqueness violation
\* and leaves the table as it was; no two stored categories share a slug;
\* of two calls in flight together for the same free slug one succeeds and
\* the other is rejected.
C12_SlugsStayUnique ==
    /\ [](\A i, j \in 1..Len(categories) :
            categories[i].slug = categories[j].slug => i = j)
    /\ [](\A c, d \in Clients :
            RacedForFreeSlug(c, d) => calls[c].res.ok # calls[d].res.ok)
    /\ [][\A c \in Clients :
            (/\ calls[c].pc = "started" /\ calls'[c].pc = "done"
             /\ SlugTaken(calls[c].req.slug))
            => /\ calls'[c].res = Err("unique_violation")
               /\ categories' = categories]_vars

\* Both clients raced for a free slug; the one that started first lost.
C12_Witness ==
    /\ RacedForFreeSlug("c2", "c1")
    /\ calls["c2"].res.ok
    /\ ~calls["c1"].res.ok
    /\ Len(categories) = 2

(***************************************************************************)
(* Preferences: rows are stored for some user ids, and the two procedures  *)
(* are called for user ids with and without a row, while time passes.      *)
(***************************************************************************)
MaxPreferenceRows == 2

\* "U1" differs from "u1" in case only.
UserIds == {"u1", "u2", "U1"}

CategoryOrders == {<<>>, <<2, 1>>}

\* The rows that get stored: for two of the user ids, none with the
\* default theme or the default language.
StoredPreferenceValues ==
    {[user_id |-> u, theme |-> t, language |-> "en", categories_order |-> o] :
        u \in {"u1", "U1"}, t \in {"dark", "light"}, o \in CategoryOrders}

\* updateUserPreferencesInputSchema: user_id and any of the three fields.
PreferenceInputs ==
    {[user_id |-> u] @@ Opt("theme", t) @@ Opt("language", g)
        @@ Opt("categories_order", o) :
        u \in UserIds, t \in OptionOf({"dark", "system"}),
        g \in OptionOf({"en"}), o \in OptionOf(CategoryOrders)}

NextPreferences ==
    \/ InsertUserPreferences(StoredPreferenceValues, MaxPreferenceRows)
    \/ UpdateUserPreferences(PreferenceInputs)
    \/ GetUserPreferencesSelect({"c2"}, UserIds)
    \/ GetUserPreferencesResult
    \/ GetUserPreferencesReturn
    \/ Tick
    \/ Respond

SpecPreferences == Init /\ [][NextPreferences]_vars

\* The steps of a getUserPreferences call, as actions.
PreferencesSelected(c) == calls[c].pc = "idle" /\ calls'[c].pc = "selected"
PreferencesReturned(c) ==
    /\ calls[c].pc \in {"selected", "created_at"}
    /\ calls'[c].pc = "idle"

\* The SELECT finds a row of the user when there is one and nothing
\* otherwise.
SelectFindsTheRowOfTheUser ==
    \A c \in Clients :
        PreferencesSelected(c) =>
            LET userId == calls'[c].req.userId
                result == calls'[c].result
            IN  IF \E i \in 1..Len(preferences) :
                        preferences[i].user_id = userId
                THEN /\ result # Null
                     /\ result[1].user_id = userId
                     /\ \E i \in 1..Len(preferences) :
                            result[1] = preferences[i]
                ELSE result = Null

\* The call returns the row found, and the default when none was found.
ReturnsTheRowFoundOrDefault ==
    \A c \in Clients :
        PreferencesReturned(c) =>
            /\ op' = "getUserPreferences"
            /\ req' = calls[c].req
            /\ res'.ok
            /\ res'.value.user_id = calls[c].req.userId
            /\ IF calls[c].result # Null
               THEN res'.value = calls[c].result[1]
               ELSE /\ res'.value.id = 0
                    /\ res'.value.theme = "system"
                    /\ res'.value.language = "zh"
                    /\ res'.value.categories_order = JsonArray(<<>>)

\* C13: getUserPreferences returns the stored row of the user when its
\* SELECT finds one, and otherwise the default (id 0, theme system, language
\* zh, no categories order) for that user, never an error; the rows of other
\* users have no part in the answer.
C13_PreferencesOfTheUserOrDefault ==
    [][SelectFindsTheRowOfTheUser /\ ReturnsTheRowFoundOrDefault]_vars

\* With rows stored for u1 and U1, the read for u2 gives the default.
C13_Witness ==
    /\ op = "getUserPreferences"
    /\ req.userId = "u2"
    /\ res.value.id = 0
    /\ Len(preferences) = 2
    /\ {preferences[i].user_id : i \in 1..2} = {"u1", "U1"}
    /\ \E i \in 1..2 : preferences[i].theme = "dark"

\* A step of a getUserPreferences call.
PreferencesStep(c) ==
    \/ PreferencesSelected(c)
    \/ calls[c].pc = "selected" /\ calls'[c].pc = "created_at"
    \/ PreferencesReturned(c)

\* C14: no step of a getUserPreferences call, for a user with or without a
\* row, changes the preference table; a user for whom no row is found gets
\* the default, and no row of that user is in the table after the step.
C14_ReadingPreferencesWritesNothing ==
    [][\A c \in Clients :
        /\ PreferencesStep(c) => preferences' = preferences
        /\ (PreferencesSelected(c) /\ calls'[c].result = Null)
            => \A i \in 1..Len(preferences') :
                    preferences'[i].user_id # calls'[c].req.userId
        /\ (PreferencesReturned(c) /\ calls[c].result = Null)
            => res'.value.id = 0]_vars

\* The default was read for u2 after time had passed, next to a stored row.
C14_Witness ==
    /\ op = "getUserPreferences"
    /\ req.userId = "u2"
    /\ res.value.id = 0
    /\ res.value.created_at = 1
    /\ Len(preferences) = 1
    /\ preferences[1].user_id = "u1"

\* The rows stored for a user id, and the user ids that have a row.
RowsOf(table, u) == {i \in 1..Len(table) : table[i].user_id = u}
UsersOf(table) == {table[i].user_id : i \in 1..Len(table)}

WritesPreferences == Idle /\ op' = "updateUserPreferences"

\* What the handler does: it answers with id 0 and the user id of its
\* input, and the table is after the call what it was before.
UpdateUserPreferencesStoresNothing ==
    [][WritesPreferences
        => /\ res'.ok
           /\ res'.value.id = 0
           /\ res'.value.user_id = req'.user_id
           /\ preferences' = preferences]_vars

\* C15: no two stored preference rows have the same user id; an
\* updateUserPreferences call leaves exactly one row for its user id, adds a
\* row only when the user id had none, and adds no row for another user id.
C15_OnePreferenceRowPerUser ==
    /\ [](\A i, j \in 1..Len(preferences) :
            preferences[i].user_id = preferences[j].user_id => i = j)
    /\ [][WritesPreferences
            => /\ Cardinality(RowsOf(preferences', req'.user_id)) = 1
               /\ UsersOf(preferences')
                    = UsersOf(preferences) \cup {req'.user_id}
               /\ Len(preferences')
                    = Len(preferences)
                      + (IF req'.user_id \in UsersOf(preferences)
                         THEN 0 ELSE 1)]_vars

PreferenceDefaults ==
    [theme |-> "system", language |-> "zh", categories_order |-> <<>>]

\* The value a preference field has after a call with this input: the
\* supplied one, else the one before (the default when there was no row).
FieldAfter(f, input, before) ==
    IF Has(input, f) THEN input[f]
    ELSE IF before = {} THEN PreferenceDefaults[f]
    ELSE IF f = "categories_order" THEN preferences[CHOOSE i \in before : TRUE][f].value
    ELSE preferences[CHOOSE i \in before : TRUE][f]

\* The values a call returns are the supplied ones, for a field left out
\* the stored ones, and the defaults when the user has no row.
ReturnsSuppliedElseStored ==
    [][WritesPreferences
        => LET before == RowsOf(preferences, req'.user_id)
               out == res'.value
           IN  /\ out.theme = FieldAfter("theme", req', before)
               /\ out.language = FieldAfter("language", req', before)
               /\ out.categories_order
                    = JsonArray(FieldAfter("categories_order", req', before))
               /\ \A i \in 1..Len(preferences) :
                    i \notin before => preferences'[i] = preferences[i]]_vars

\* The response is what getUserPreferences for the user id then returns.
ReturnsWhatIsThenRead ==
    [](op = "updateUserPreferences"
        => /\ res.ok
           /\ SelectUserPreferences(req.user_id) # {Null}
           /\ {ToPreferences(r[1]) :
                    r \in SelectUserPreferences(req.user_id)} = {res.value})

\* C16: after updateUserPreferences each of theme, language and
\* categories_order of the user's row is the supplied value, or for a field
\* left out the stored value, or the default when the row is new; the
\* response is what getUserPreferences for the user id then returns.
C16_PreferencesOverwriteSuppliedFields ==
    ReturnsWhatIsThenRead /\ ReturnsSuppliedElseStored

\* C17: updateUserPreferences for a user id that has a row returns the
\* created_at of the row and sets the row's updated_at to the time of the
\* call, later than the one before when time has passed; for a user id
\* without a row both are the time of the call; no step changes the
\* created_at of a stored row.
C17_PreferenceTimestamps ==
    /\ [][WritesPreferences
            => LET before == RowsOf(preferences, req'.user_id)
                   out == res'.value
               IN  /\ out.updated_at \in clock..clock'
                   /\ \A i \in before :
                        /\ preferences'[i].updated_at = out.updated_at
                        /\ out.created_at = preferences[i].created_at
                        /\ out.updated_at >= preferences[i].updated_at
                        /\ clock > preferences[i].updated_at
                            => out.updated_at > preferences[i].updated_at
                   /\ before = {} => out.created_at \in clock..clock']_vars
    /\ [][\A i \in 1..Len(preferences) :
            /\ i <= Len(preferences')
            /\ preferences'[i].created_at = preferences[i].created_at]_vars

\* The part of C17 the handler keeps: both timestamps it returns are read
\* during the call, created_at first.
ReturnsTheTimeOfTheCall ==
    [][WritesPreferences
        => /\ res'.value.created_at = clock
           /\ res'.value.updated_at = clock'
           /\ res'.value.created_at <= res'.value.updated_at]_vars

(***************************************************************************)
(* Concurrent updateUserPreferences calls: each is in flight from the       *)
(* moment the caller sends it until the handler has run for it.            *)
(***************************************************************************)
\* updateUserPreferences(input) is called; rivals and prior record what
\* was there at that moment: the calls in flight and the user's row.
StartUpdateUserPreferences(inputs) ==
    /\ \E c \in Clients, input \in inputs :
        /\ calls[c].pc = "idle"
        /\ calls' = [calls EXCEPT ![c] =
                        [pc |-> "started", op |-> "updateUserPreferences",
                         req |-> input, rivals |-> InFlight,
                         prior |-> {preferences[i] :
                                     i \in PreferenceRows(input.user_id)}]]
    /\ UNCHANGED <<app, storeUp, preferences, articles, categories, categorySeq, clock,
                   created, updates, op, req, res>>

\* The handler runs for a call in flight, from its first line to its
\* return.
RunUpdateUserPreferences ==
    /\ \E c \in InFlight, updatedAt \in clock..MaxClock :
        /\ calls[c].op = "updateUserPreferences"
        /\ clock' = updatedAt
        /\ calls' = [calls EXCEPT ![c] =
                        [@ EXCEPT !.pc = "done"]
                            @@ [res |-> Ok(updateUserPreferences(
                                                calls[c].req, clock, updatedAt))]]
    /\ UNCHANGED <<app, storeUp, preferences, articles, categories, categorySeq, created,
                   updates, op, req, res>>

\* Calls for u1 that supply any of the three fields, and one for u2.
RacingPreferenceInputs ==
    {p \in PreferenceInputs :
        /\ p.user_id \in {"u1", "u2"}
        /\ p.user_id = "u2" => DOMAIN p = {"user_id"}
        /\ Has(p, "categories_order") => p.categories_order # <<>>}

\* The row that may be stored for u1 before the calls.
RacingStoredValues ==
    {v \in StoredPreferenceValues :
        v.user_id = "u1" /\ v.theme = "light" /\ v.categories_order = <<>>}

NextRacingPreferences ==
    \/ InsertUserPreferences(RacingStoredValues, MaxPreferenceRows)
    \/ StartUpdateUserPreferences(RacingPreferenceInputs)
    \/ RunUpdateUserPreferences
    \/ Return

SpecRacingPreferences == Init /\ [][NextRacingPreferences]_vars

\* Two finished calls for the same user id that were in flight together.
RacedForUser(c, d) ==
    /\ c \in Done /\ d \in Done
    /\ d \in calls[c].rivals
    /\ calls[c].op = "updateUserPreferences"
    /\ calls[c].req.user_id = calls[d].req.user_id

\* The values field f may have after the race of c and d: one that a call
\* supplied, or when none did the one stored before, or the default.
ValuesAfterRace(f, c, d) ==
    LET supplied == {calls[e].req[f] : e \in {e \in {c, d} : Has(calls[e].req, f)}}
        stored == {IF f = "categories_order" THEN r[f].value ELSE r[f] :
                    r \in calls[c].prior}
    IN  IF supplied # {} THEN supplied
        ELSE IF stored # {} THEN stored
        ELSE {PreferenceDefaults[f]}

\* C18: of updateUserPreferences calls in flight together for one user id
\* none fails, one row of the user is stored afterwards, and each of its
\* fields has a value one of the calls supplied or, when none supplied the
\* field, the value stored before or the default.
C18_ConcurrentPreferenceWrites ==
    /\ \A c \in Done : calls[c].res.ok
    /\ \A c, d \in Clients :
        RacedForUser(c, d) =>
            LET mine == RowsOf(preferences, calls[c].req.user_id)
            IN  /\ Cardinality(mine) = 1
                /\ \A i \in mine :
                    /\ preferences[i].theme \in ValuesAfterRace("theme", c, d)
                    /\ preferences[i].language
                        \in ValuesAfterRace("language", c, d)
                    /\ preferences[i].categories_order.value
                        \in ValuesAfterRace("categories_order", c, d)

\* The part of C18 the handler keeps: no call fails.
ConcurrentCallsAnswer ==
    \A c \in Done : calls[c].res.ok

(***************************************************************************)
(* The router: each procedure parses its input with its schema and calls   *)
(* the handler with the parsed input; an input the schema refuses is       *)
(* answered with a validation error and the handler is not called.         *)
(***************************************************************************)
MaxRouted == 1

\* z.string().url(): the texts below are the ones that are no URL.
NotUrls == {"", "e.com"}
IsUrl(s) == s \notin NotUrls

\* limit: int().min(1).max(100); offset: int().nonnegative()
ValidWindowNoMax(raw) ==
    /\ Has(raw, "limit") => raw.limit >= 1
    /\ Has(raw, "offset") => raw.offset >= 0
ValidWindow(raw) ==
    /\ Has(raw, "limit") => raw.limit >= 1 /\ raw.limit <= 100
    /\ Has(raw, "offset") => raw.offset >= 0

\* title: string().min(1); score, comments_count: int().nonnegative();
\* thumbnail_url: string().url().nullable()
ValidArticleFields(raw) ==
    /\ Has(raw, "title") => raw.title # <<>>
    /\ Has(raw, "score") => raw.score >= 0
    /\ Has(raw, "comments_count") => raw.comments_count >= 0
    /\ Has(raw, "thumbnail_url") =>
            raw.thumbnail_url = Null \/ IsUrl(raw.thumbnail_url[1])

Valid(proc, raw) ==
    CASE proc = "getHomepageData" -> raw = NoInput \/ ValidWindow(raw)
      [] proc = "getNewsArticles" -> ValidWindow(raw)
      [] proc = "searchArticles" -> raw.query # <<>> /\ ValidWindow(raw)
      [] proc = "getFeaturedArticles" ->
            Has(raw, "limit") => raw.limit >= 1 /\ raw.limit <= 20
      [] proc = "createNewsArticle" ->
            ValidArticleFields(raw) /\ IsUrl(raw.source_url)
      [] proc = "updateNewsArticle" -> ValidArticleFields(raw)
      [] proc = "getUserPreferences" -> raw.userId # ""

\* The defaults the schema fills in.
PaginationDefaults ==
    [limit |-> DefaultLimit, offset |-> DefaultOffset, featured_only |-> FALSE]

SearchDefaults == [limit |-> DefaultLimit, offset |-> DefaultOffset]

\* The input is refused: TRPCError BAD_REQUEST, no handler runs.
Rejected(proc, raw) ==
    /\ Idle
    /\ op' = proc
    /\ req' = raw
    /\ res' = Err("validation")
    /\ UNCHANGED <<app, storeUp, preferences, articles, categories, categorySeq, clock,
                   created, updates, calls>>

\* .query(({ input }) => handler(input)) / .mutation(...)
Handle(proc, raw) ==
    \/ /\ proc = "getHomepageData"
       /\ StartGetHomepageData({"c1"},
            {IF raw = NoInput THEN raw ELSE raw @@ PaginationDefaults})
    \/ /\ proc = "getNewsArticles"
       /\ GetNewsArticles({raw @@ PaginationDefaults})
    \/ /\ proc = "searchArticles"
       /\ SearchArticles({raw @@ SearchDefaults})
    \/ /\ proc = "getFeaturedArticles"
       /\ GetFeaturedArticles({raw})
    \/ /\ proc = "createNewsArticle"
       /\ CreateNewsArticle({raw}, MaxRouted)
    \/ /\ proc = "updateNewsArticle"
       /\ StartUpdateNewsArticle({"c1"}, {raw}, MaxUpdates)
    \/ /\ proc = "getUserPreferences"
       /\ GetUserPreferencesSelect({"c1"}, {raw.userId})

Route(proc, raw) ==
    IF Valid(proc, raw) THEN Handle(proc, raw) ELSE Rejected(proc, raw)

\* The inputs sent to the router: within the schemas and outside them.
WindowRaws ==
    {Opt("limit", l) @@ Opt("offset", o) :
        l \in OptionOf({0, 1, 100, 101}), o \in OptionOf({0 - 1, 0, 1})}

RouterCalls ==
    {[proc |-> p, raw |-> w] :
        p \in {"getHomepageData", "getNewsArticles"}, w \in WindowRaws}
    \cup {[proc |-> "getHomepageData", raw |-> NoInput]}
    \cup {[proc |-> "searchArticles", raw |-> [query |-> q] @@ w] :
            q \in {<<>>, <<"a">>}, w \in WindowRaws}
    \cup {[proc |-> "getFeaturedArticles", raw |-> Opt("limit", l)] :
            l \in OptionOf({0, 1, 20, 21})}
    \cup {[proc |-> "createNewsArticle",
           raw |-> [BaseArticleInput EXCEPT !.title = t, !.score = n,
                                            !.comments_count = k,
                                            !.thumbnail_url = h,
                                            !.source_url = u]] :
            t \in {<<>>, <<"a">>}, n \in {0 - 1, 0}, k \in {0 - 1, 0},
            h \in OptionOf({"e.com"}), u \in {"e.com", "https://e.com/1"}}
    \cup {[proc |-> "updateNewsArticle",
           raw |-> [id |-> 1] @@ Opt("title", t) @@ Opt("score", n)
                      @@ Opt("comments_count", k)] :
            t \in OptionOf({<<>>, <<"b">>}), n \in OptionOf({0 - 1, 7}),
            k \in OptionOf({0 - 1, 3})}
    \cup {[proc |-> "getUserPreferences", raw |-> [userId |-> u]] :
            u \in {"", "u1"}}

\* The requests that write are sent at any time, the others while no call
\* is in flight.
NextRouter ==
    \/ \E call \in RouterCalls :
        /\ call.proc = "createNewsArticle" \/ NoCallInFlight
        /\ Route(call.proc, call.raw)
    \/ HomepageSelectFeatured
    \/ HomepageSelectLatest
    \/ HomepageSelectCategories
    \/ HomepageCount
    \/ RunUpdateNewsArticle
    \/ GetUserPreferencesResult
    \/ GetUserPreferencesReturn
    \/ Respond

SpecRouter == Init /\ [][NextRouter]_vars

\* The violations of a procedure's schema, as the inputs show them.
OutsideWindow(raw, most) ==
    \/ Has(raw, "limit") /\ (raw.limit < 1 \/ raw.limit > most)
    \/ Has(raw, "offset") /\ raw.offset < 0

BadArticleFields(raw) ==
    \/ Has(raw, "title") /\ Len(raw.title) = 0
    \/ Has(raw, "score") /\ raw.score < 0
    \/ Has(raw, "comments_count") /\ raw.comments_count < 0

Violates(proc, raw) ==
    \/ proc \in {"getHomepageData", "getNewsArticles", "searchArticles"}
        /\ OutsideWindow(raw, 100)
    \/ proc = "getFeaturedArticles" /\ OutsideWindow(raw, 20)
    \/ proc = "searchArticles" /\ Len(raw.query) = 0
    \/ proc \in {"createNewsArticle", "updateNewsArticle"}
        /\ BadArticleFields(raw)
    \/ proc = "getUserPreferences" /\ raw.userId = ""

\* C19: a call whose input breaks its procedure's schema (limit outside
\* 1..100 or a negative offset for getHomepageData, getNewsArticles and
\* searchArticles; limit outside 1..20 for getFeaturedArticles; an empty
\* query; an empty title, a negative score or comments_count for create and
\* update; an empty user id for getUserPreferences) is answered with the
\* validation error and changes nothing in the store.
C19_InvalidInputIsRejected ==
    [][(Idle /\ op' # "" /\ Violates(op', req'))
        => /\ res' = Err("validation")
           /\ <<articles, categories, preferences>>'
                = <<articles, categories, preferences>>]_vars

\* An update with a negative score was refused while the article it names
\* is stored.
C19_Witness ==
    /\ op = "updateNewsArticle"
    /\ res = Err("validation")
    /\ Has(req, "score") /\ req.score < 0
    /\ ~Has(req, "title")
    /\ Len(articles) = 1
    /\ articles[1].score = 0

(***************************************************************************)
(* Store failures: while the store is down every statement throws, and     *)
(* the handler's catch block logs the error and throws it again.  The      *)
(* handlers here are those that run a statement: updateUserPreferences     *)
(* runs none.                                                              *)
(***************************************************************************)
\* The first statement of the handler throws: nothing was written.
StoreFails(proc, inputs) ==
    /\ Idle
    /\ \E input \in inputs :
        /\ op' = proc
        /\ req' = input
        /\ res' = Rethrown("store_failure")
    /\ UNCHANGED <<app, storeUp, preferences, articles, categories, categorySeq,
                   clock, created, updates, calls>>

\* The connection to the store is lost, or is back.
Disconnect ==
    /\ Idle
    /\ storeUp
    /\ storeUp' = FALSE
    /\ UNCHANGED <<app, preferences, articles, categories, categorySeq, clock,
                   created, updates, calls, op, req, res>>

Reconnect ==
    /\ Idle
    /\ ~storeUp
    /\ storeUp' = TRUE
    /\ UNCHANGED <<app, preferences, articles, categories, categorySeq, clock,
                   created, updates, calls, op, req, res>>

MaxFaulty == 1

FaultyCreateInputs ==
    {[BaseArticleInput EXCEPT !.is_featured = f] : f \in BOOLEAN}

FaultyUpdateInputs ==
    {[id |-> i] @@ Opt("title", t) : i \in 1..2, t \in OptionOf({<<"b">>})}

FaultyCategoryInputs == {c \in RacingCategoryInputs : c.is_active}

\* The row that gets stored for u1.
FaultyPreferenceInputs ==
    {v \in StoredPreferenceValues :
        v.user_id = "u1" /\ v.theme = "dark" /\ v.categories_order = <<>>}

FaultySearchInputs == {[query |-> <<"a">>] @@ SearchDefaults}

NextFaults ==
    \/ Disconnect
    \/ Reconnect
    \/ Respond
    \/ storeUp /\ CreateNewsArticle(FaultyCreateInputs, MaxFaulty)
    \/ ~storeUp /\ StoreFails("createNewsArticle", FaultyCreateInputs)
    \/ StartUpdateNewsArticle({"c1"}, FaultyUpdateInputs, MaxUpdates)
    \/ storeUp /\ RunUpdateNewsArticle
    \/ ~storeUp /\ UpdateStatementFails
    \/ storeUp /\ CreateCategory(FaultyCategoryInputs)
    \/ ~storeUp /\ StoreFails("createCategory", FaultyCategoryInputs)
    \/ storeUp /\ InsertUserPreferences(FaultyPreferenceInputs, MaxPreferenceRows)
    \/ storeUp /\ StartGetHomepageData({"c1"}, {NoInput})
    \/ storeUp /\ HomepageSelectFeatured
    \/ storeUp /\ HomepageSelectLatest
    \/ storeUp /\ HomepageSelectCategories
    \/ storeUp /\ HomepageCount
    \/ NoCallInFlight /\ ~storeUp /\ StoreFails("getHomepageData", {NoInput})
    \/ ~storeUp /\ HomepageStatementFails
    \/ NoCallInFlight /\ storeUp /\ GetNewsArticles({PaginationDefaults})
    \/ NoCallInFlight /\ ~storeUp /\ StoreFails("getNewsArticles", {PaginationDefaults})
    \/ NoCallInFlight /\ storeUp /\ GetFeaturedArticles({NoInput})
    \/ NoCallInFlight /\ ~storeUp /\ StoreFails("getFeaturedArticles", {NoInput})
    \/ NoCallInFlight /\ storeUp /\ SearchArticles(FaultySearchInputs)
    \/ NoCallInFlight /\ ~storeUp /\ StoreFails("searchArticles", FaultySearchInputs)
    \/ NoCallInFlight /\ storeUp /\ GetCategories({NoInput})
    \/ NoCallInFlight /\ ~storeUp /\ StoreFails("getCategories", {NoInput})
    \/ storeUp /\ GetUserPreferencesSelect({"c1"}, {"u1"})
    \/ GetUserPreferencesResult
    \/ GetUserPreferencesReturn
    \/ NoCallInFlight /\ ~storeUp /\ StoreFails("getUserPreferences", {[userId |-> "u1"]})

SpecFaults == Init /\ [][NextFaults]_vars

Tables == <<articles, categories, preferences>>

\* The step ends a call by running a statement: every step that answers,
\* but the return of getUserPreferences, whose SELECT has run before.
AnswersFromAStatement ==
    /\ Idle
    /\ op' # ""
    /\ \A c \in Clients : ~PreferencesReturned(c)

\* C20: a call whose statement runs while the store fails its statements is
\* rejected, never answered with a value, and a rejected call, whatever
\* rejected it, leaves articles, categories and preferences as they were.
C20_StoreFailuresAreRethrown ==
    /\ [][(AnswersFromAStatement /\ ~storeUp) => ~res'.ok]_vars
    /\ [][(Idle /\ op' # "" /\ ~res'.ok) => Tables' = Tables]_vars

\* The homepage call was rejected for the failing store while an article,
\* a category and a preference row are stored.
C20_Witness ==
    /\ op = "getHomepageData"
    /\ ~res.ok
    /\ ~storeUp
    /\ Len(articles) = 1 /\ Len(categories) = 1 /\ Len(preferences) = 1

(***************************************************************************)
(* Articles and categories written through the API, the article's          *)
(* category_id being null, the id of the first category, or an id that     *)
(* may be no category's.                                                   *)
(***************************************************************************)
ReferencedIds == {1, 2}

ReferenceCreateInputs ==
    {[BaseArticleInput EXCEPT !.category_id = c] :
        c \in OptionOf(ReferencedIds)}

ReferenceUpdateInputs ==
    {[id |-> i, category_id |-> c] :
        i \in 1..MaxArticles, c \in OptionOf(ReferencedIds)}

NextReferences ==
    \/ CreateCategory(RacingCategoryInputs)
    \/ CreateNewsArticle(ReferenceCreateInputs, MaxArticles)
    \/ StartUpdateNewsArticle({"c2"}, ReferenceUpdateInputs, MaxUpdates)
    \/ RunUpdateNewsArticle
    \/ Respond

SpecReferences == Init /\ [][NextReferences]_vars

\* C22: in every reachable state each article's category_id is null or the
\* id of a stored category.
C22_CategoryReferencesResolve ==
    \A i \in 1..Len(articles) :
        \/ articles[i].category_id = Null
        \/ \E k \in 1..Len(categories) :
            articles[i].category_id = Some(categories[k].id)

\* What does hold: an article's category_id is null or the value the last
\* create or update of the article supplied, whether or not it is a
\* category's id.
C22_CategoryIdIsAsSupplied ==
    [][(Idle /\ op' \in {"createNewsArticle", "updateNewsArticle"}
            /\ res'.ok /\ Has(req', "category_id"))
        => res'.value.category_id = req'.category_id]_vars

(***************************************************************************)
(* Categories that share a sort_order, listed by getCategories and by      *)
(* getHomepageData.                                                        *)
(***************************************************************************)
NextCategoryTies ==
    \/ CreateCategory(RacingCategoryInputs)
    \/ GetCategories(GetCategoriesInputs)
    \/ StartGetHomepageData({"c1"}, {NoInput})
    \/ HomepageSelectFeatured
    \/ HomepageSelectLatest
    \/ HomepageSelectCategories
    \/ HomepageCount
    \/ Respond

SpecCategoryTies == Init /\ [][NextCategoryTies]_vars

\* The categories of a response of getCategories or getHomepageData.
ReturnedCategories ==
    IF op = "getCategories" THEN res.value ELSE res.value.categories

\* C23: categories with equal sort_order are returned by getCategories and
\* by getHomepageData in ascending id order.
C23_CategoryTiesInIdOrder ==
    (op \in {"getCategories", "getHomepageData"} /\ res.ok) =>
        \A i, j \in 1..Len(ReturnedCategories) :
            (i < j /\ ReturnedCategories[i].sort_order
                        = ReturnedCategories[j].sort_order)
                => ReturnedCategories[i].id < ReturnedCategories[j].id

\* What the ORDER BY does fix: the returned categories ascend by
\* sort_order.
C23_CategoriesAscendBySortOrder ==
    (op \in {"getCategories", "getHomepageData"} /\ res.ok) =>
        \A i, j \in 1..Len(ReturnedCategories) :
            i < j => ReturnedCategories[i].sort_order
                        <= ReturnedCategories[j].sort_order

(***************************************************************************)
(* Paging: a caller reads the first page and then the second, each with    *)
(* its own call; other callers write before, between and after the two.    *)
(***************************************************************************)
PageSize == 1

NextPage(input) == [input EXCEPT !.offset = input.offset + input.limit]

\* const firstPage = await handler({ ..., offset: 0 }): the caller receives
\* the first page and keeps it.  The record also notes the store the page
\* was read from.
KeepFirstPage(callers) ==
    /\ ~Idle
    /\ op \in {"getNewsArticles", "searchArticles"}
    /\ res.ok
    /\ req.offset = 0
    /\ \E c \in callers :
        calls' = [calls EXCEPT ![c] =
                    [pc |-> "paged", op |-> op, req |-> req,
                     first |-> res.value, store |-> articles]]
    /\ op' = ""
    /\ req' = <<>>
    /\ res' = <<>>
    /\ UNCHANGED <<app, storeUp, preferences, articles, categories, categorySeq, clock, created, updates>>

PagedCreateInputs ==
    {[BaseArticleInput EXCEPT !.language = g, !.published_at = p] :
        g \in Languages, p \in PublishedTimes}

PagedListInputs ==
    {[limit |-> PageSize, offset |-> o, featured_only |-> FALSE]
        @@ Opt("language", g) :
        o \in {0, PageSize}, g \in OptionOf(Languages)}

PagedSearchInputs ==
    {[query |-> <<"a">>, limit |-> PageSize, offset |-> o]
        @@ Opt("language", g) :
        o \in {0, PageSize}, g \in OptionOf(Languages)}

NextPages ==
    \/ CreateNewsArticle(PagedCreateInputs, MaxArticles)
    \/ GetNewsArticles(PagedListInputs)
    \/ SearchArticles(PagedSearchInputs)
    \/ KeepFirstPage({"c2"})
    \/ Respond

SpecPages == Init /\ [][NextPages]_vars

\* The pending response is the second page of the caller c, read from the
\* store the first page was read from.
SecondPageOfTheSameStore(c) ==
    /\ calls[c].pc = "paged"
    /\ op = calls[c].op
    /\ res.ok
    /\ req = NextPage(calls[c].req)
    /\ articles = calls[c].store

\* The ids of the stored articles the call is about.
Wanted(proc, input) ==
    {articles[i].id :
        i \in {k \in Matching(input, TRUE) :
                proc = "searchArticles" =>
                    Mentions(articles[k], input.query)}}

IdsOf(page) == {page[k].id : k \in 1..Len(page)}

\* No article is on both pages, and the two pages together hold every
\* wanted article when two pages have room for them.
PagesPartition(c) ==
    /\ IdsOf(calls[c].first) \cap IdsOf(res.value) = {}
    /\ Cardinality(Wanted(op, req)) <= 2 * PageSize =>
        IdsOf(calls[c].first) \cup IdsOf(res.value) = Wanted(op, req)

\* C25: on a fixed store, the page at offset 0 and the page at offset k,
\* both of limit k, share no article and together enumerate every matching
\* article, also when articles share a published_at.
C25_PagesPartitionTheListing ==
    \A c \in Clients : SecondPageOfTheSameStore(c) => PagesPartition(c)

\* What the ORDER BY does give: the pages partition the listing when no two
\* wanted articles share a published_at.
C25_PagesPartitionWithoutTies ==
    \A c \in Clients :
        (SecondPageOfTheSameStore(c)
            /\ \A i, j \in Matching(req, TRUE) :
                i # j => articles[i].published_at # articles[j].published_at)
            => PagesPartition(c)

\* Without the fixed store the pages overlap even when no two articles
\* share a published_at: an article created between the two calls moves
\* the listing by one.
C25_PagesPartitionWhileWritten ==
    \A c \in Clients :
        (/\ calls[c].pc = "paged"
         /\ op = calls[c].op
         /\ res.ok
         /\ req = NextPage(calls[c].req)
         /\ \A i, j \in 1..Len(articles) :
                i # j => articles[i].published_at # articles[j].published_at)
            => IdsOf(calls[c].first) \cap IdsOf(res.value) = {}

(***************************************************************************)
(* Writes of other callers between the statements of getHomepageData.      *)
(***************************************************************************)
InterleavedCreateInputs ==
    {[BaseArticleInput EXCEPT !.is_featured = TRUE, !.category_id = c] :
        c \in OptionOf(CategoryIds)}

InterleavedUpdateInputs ==
    {[id |-> 1, category_id |-> Null], [id |-> 1, title |-> <<"b">>]}

InterleavedHomepageInputs ==
    {NoInput, [limit |-> DefaultLimit, offset |-> 0, category_id |-> 1]}

NextInterleaved ==
    \/ CreateNewsArticle(InterleavedCreateInputs, MaxArticles)
    \/ StartUpdateNewsArticle({"c2"}, InterleavedUpdateInputs, MaxUpdates)
    \/ RunUpdateNewsArticle
    \/ Respond
    \/ StartGetHomepageData({"c1"}, InterleavedHomepageInputs)
    \/ HomepageSelectFeatured
    \/ HomepageSelectLatest
    \/ HomepageSelectCategories
    \/ HomepageCount

SpecInterleaved == Init /\ [][NextInterleaved]_vars

LatestWithinTotal(h) == Len(h.latest_articles) <= h.total_articles

LatestPassesCountFilters(h, input) ==
    \A k \in 1..Len(h.latest_articles) :
        Passes(h.latest_articles[k], input, FALSE)

FeaturedAgreesWithLatest(h) ==
    \A i \in 1..Len(h.featured_articles), k \in 1..Len(h.latest_articles) :
        h.featured_articles[i].id = h.latest_articles[k].id
            => h.featured_articles[i] = h.latest_articles[k]

\* C26: a getHomepageData response has no more latest articles than its
\* total, each latest article passes the filters the total counts, and an
\* article in both featured and latest has the same field values in both,
\* whatever writes ran between the handler's statements.
C26_HomepageIsOneSnapshot ==
    (op = "getHomepageData" /\ res.ok) =>
        /\ LatestWithinTotal(res.value)
        /\ LatestPassesCountFilters(res.value, req)
        /\ FeaturedAgreesWithLatest(res.value)

\* The part that holds under every interleaving: the latest articles, as
\* returned, pass the filters of the count.
C26_LatestPassesCountFilters ==
    (op = "getHomepageData" /\ res.ok) =>
        LatestPassesCountFilters(res.value, req)

\* The two failures of C26, each on its own.
C26_LatestWithinTotal ==
    (op = "getHomepageData" /\ res.ok) => LatestWithinTotal(res.value)

C26_FeaturedAgreesWithLatest ==
    (op = "getHomepageData" /\ res.ok) => FeaturedAgreesWithLatest(res.value)

LatestReadIsAListing ==
    \A c \in Clients :
        (LatestRead(c) /\ Has(calls[c].req, "limit")) =>
            calls'[c].latestResults \in getNewsArticles(calls[c].req)

ListingIsALatestRead ==
    op = "getNewsArticles" => res.value \in HomepageLatest(req)

\* C29: on every store and for every PaginationInput, the latest_articles
\* getHomepageData reads, and returns, are a result getNewsArticles can
\* return for the same input, and what getNewsArticles returns is a
\* latest_articles getHomepageData can read: same filters, order, window
\* and tags.
C29_LatestIsTheListing ==
    /\ [][LatestReadIsAListing /\ ReturnsLatestAsRead]_vars
    /\ []ListingIsALatestRead

\* The homepage was asked for the second page of the featured articles of
\* one language and category and returned one of the two stored articles.
C29_Witness ==
    /\ op = "getHomepageData"
    /\ Has(req, "limit") /\ req.limit = 1 /\ req.offset = 1
    /\ Has(req, "category_id") /\ Has(req, "language") /\ req.featured_only
    /\ Len(articles) = 2
    /\ Len(res.value.latest_articles) = 1
    /\ res.value.latest_articles \in getNewsArticles(req)

(***************************************************************************)
(* Articles whose tags are set by updateNewsArticle and then read.         *)
(***************************************************************************)
RetaggedCreateInputs ==
    {[BaseArticleInput EXCEPT !.is_featured = TRUE, !.tags = t] :
        t \in {<<>>, <<<<"a">>>>}}

RetagInputs ==
    {[id |-> 1, tags |-> t] : t \in TagLists}
    \cup {[id |-> 1, title |-> <<"a">>, tags |-> <<<<"b">>>>]}

NextRetagged ==
    \/ CreateNewsArticle(RetaggedCreateInputs, MaxTagged)
    \/ StartUpdateNewsArticle({"c2"}, RetagInputs, MaxUpdates)
    \/ RunUpdateNewsArticle
    \/ NoCallInFlight /\ GetNewsArticles(TaggedListInputs)
    \/ StartGetHomepageData({"c1"}, {NoInput})
    \/ HomepageSelectFeatured
    \/ HomepageSelectLatest
    \/ HomepageSelectCategories
    \/ HomepageCount
    \/ NoCallInFlight /\ GetFeaturedArticles({NoInput})
    \/ NoCallInFlight /\ SearchArticles(TaggedSearchInputs)
    \/ Respond

SpecRetagged == Init /\ [][NextRetagged]_vars

\* The stored article of the given id holds the tags as update writes
\* the list T.
StoredAsUpdated(id, T) ==
    \E j \in 1..Len(articles) :
        /\ articles[j].id = id
        /\ articles[j].tags = JsonString(JsonStringify(T))

\* Every article of the list whose stored tags are what an update wrote
\* for some T has tags = T.
ReadBackAsUpdated(list) ==
    \A k \in 1..Len(list) : \A T \in TagLists :
        StoredAsUpdated(list[k].id, T) => list[k].tags = T

UpdateReturnsItsTags ==
    (op = "updateNewsArticle" /\ req.id <= Len(articles)) =>
        /\ res.ok
        /\ res.value.tags = req.tags
        /\ StoredAsUpdated(req.id, req.tags)

ReadersReadBackAsUpdated ==
    op \in {"getNewsArticles", "getFeaturedArticles", "searchArticles"} =>
        ReadBackAsUpdated(res.value)

HomepageReadsBackAsUpdated ==
    \A c \in Clients :
        /\ FeaturedRead(c) => ReadBackAsUpdated(calls'[c].featuredResults)
        /\ LatestRead(c) => ReadBackAsUpdated(calls'[c].latestResults)

\* C30: updateNewsArticle given the tags T returns tags = T, and every read
\* handler returns an article whose stored tags, when its statement reads
\* them, are what the update wrote for T with tags = T.
C30_UpdatedTagsReadBack ==
    /\ [](UpdateReturnsItsTags /\ ReadersReadBackAsUpdated)
    /\ [][/\ HomepageReadsBackAsUpdated
          /\ ReturnsFeaturedAsRead
          /\ ReturnsLatestAsRead]_vars

\* A search returned an article whose tags an update had set to two tags
\* that need escaping in JSON.
C30_Witness ==
    /\ op = "searchArticles"
    /\ \E k \in 1..Len(res.value) :
        /\ StoredAsUpdated(res.value[k].id, <<<<"\"">>, <<"a", "\\">>>>)
        /\ res.value[k].tags = <<<<"\"">>, <<"a", "\\">>>>

\* The stored tags value decodes to no list: neither a list nor JSON text.
Malformed(v) == FromDriver(v).kind # "array"

ArticleHandlers ==
    {"createNewsArticle", "updateNewsArticle", "getNewsArticles",
     "getHomepageData", "getFeaturedArticles", "searchArticles"}

\* The articles of a response, whichever handler gave it.
Returned ==
    IF op \notin ArticleHandlers \/ ~res.ok THEN <<>>
    ELSE IF op \in {"createNewsArticle", "updateNewsArticle"}
        THEN <<res.value>>
    ELSE IF op = "getHomepageData"
        THEN res.value.featured_articles \o res.value.latest_articles
    ELSE res.value

\* An array of strings over the characters of the tags written here, as
\* opposed to a stored jsonb value.
TagCharacters == {"a", "b", "\"", "\\"}
IsTagArray(t) == t \in Seq(Seq(TagCharacters))

\* No call of an article handler fails, but an update of an id that is not
\* stored.
ArticleCallsAnswer ==
    op \in ArticleHandlers =>
        \/ res.ok
        \/ op = "updateNewsArticle" /\ res.error = "not_found"
                /\ req.id > Len(articles)

\* Every article returned has an array as its tags, the empty one when
\* the value stored for it decodes to no list.
ReturnedTagsAreArrays ==
    \A i \in 1..Len(Returned) :
        /\ IsTagArray(Returned[i].tags)
        /\ \A j \in 1..Len(articles) :
            (articles[j].id = Returned[i].id /\ Malformed(articles[j].tags))
                => Returned[i].tags = <<>>

\* Whatever create and update have written decodes to a list.
StoredTagsDecode ==
    \A j \in 1..Len(articles) : ~Malformed(articles[j].tags)

MaxSearches == 2

RECURSIVE TrimStart(_)
TrimStart(t) == IF t # <<>> /\ Head(t) = " " THEN TrimStart(Tail(t)) ELSE t
RECURSIVE TrimEnd(_)
TrimEnd(t) ==
    IF t # <<>> /\ t[Len(t)] = " " THEN TrimEnd(SubSeq(t, 1, Len(t) - 1))
    ELSE t
\* query.trim()
Trim(t) == TrimEnd(TrimStart(t))

\* The effect on [searchQuery, handleSearch]: the cleanup clears the timer
\* that is set, and a new one is set that holds the values of this render.
DebounceTimer(a) ==
    Some([query |-> a.searchQuery, language |-> a.language,
          category |-> a.selectedCategory])

\* What handleSearch sends, and what the router's schema makes of it.
SearchRequest(t) ==
    [query |-> Trim(t.query), language |-> t.language, limit |-> 20]
        @@ (IF t.category = Null THEN <<>>
            ELSE [category_id |-> t.category[1]])

SearchResponses(input) == searchArticles(input @@ SearchDefaults)

\* setIsLoading(false) in finally, after setHomepageData(data)
HomepageResolves ==
    /\ app.loading
    /\ \E data \in getHomepageData(NoInput) :
        app' = [app EXCEPT !.homepageData = Some(data), !.isLoading = FALSE,
                           !.loading = FALSE,
                           !.settled = Some([call |-> "getHomepageData",
                                             ok |-> TRUE])]
    /\ UNCHANGED <<storeUp, articles, categories, categorySeq, preferences, clock, created, updates,
                   calls, op, req, res>>

\* catch: console.error; finally: setIsLoading(false)
HomepageRejects ==
    /\ app.loading
    /\ app' = [app EXCEPT !.isLoading = FALSE, !.loading = FALSE,
                          !.settled = Some([call |-> "getHomepageData",
                                            ok |-> FALSE])]
    /\ UNCHANGED <<storeUp, articles, categories, categorySeq, preferences, clock, created, updates,
                   calls, op, req, res>>

\* onChange={(e) => setSearchQuery(e.target.value)}: the input is rendered
\* once the page is no longer loading.
TypeQuery(queries) ==
    /\ ~app.isLoading
    /\ \E q \in queries \ {app.searchQuery} :
        LET a == [app EXCEPT !.searchQuery = q, !.settled = Null]
        IN  app' = [a EXCEPT !.timer = DebounceTimer(a)]
    /\ UNCHANGED <<storeUp, articles, categories, categorySeq, preferences, clock, created, updates,
                   calls, op, req, res>>

\* onClick={() => setLanguage(language === 'zh' ? 'en' : 'zh')}: handleSearch
\* is made anew, so the search effect runs again.
ToggleLanguage ==
    /\ ~app.isLoading
    /\ LET a == [app EXCEPT !.language = IF @ = "zh" THEN "en" ELSE "zh",
                            !.settled = Null]
       IN  app' = [a EXCEPT !.timer = DebounceTimer(a)]
    /\ UNCHANGED <<storeUp, articles, categories, categorySeq, preferences, clock, created, updates,
                   calls, op, req, res>>

\* onClick={() => setSelectedCategory(...)}: the buttons are rendered from
\* homepageData.categories.
SelectCategory ==
    /\ ~app.isLoading
    /\ app.homepageData # Null
    /\ \E c \in ({Null} \cup {Some(app.homepageData[1].categories[k].id) :
                    k \in 1..Len(app.homepageData[1].categories)})
                \ {app.selectedCategory} :
        LET a == [app EXCEPT !.selectedCategory = c, !.settled = Null]
        IN  app' = [a EXCEPT !.timer = DebounceTimer(a)]
    /\ UNCHANGED <<storeUp, articles, categories, categorySeq, preferences, clock, created, updates,
                   calls, op, req, res>>

\* The timeout's callback: if (searchQuery) handleSearch(searchQuery), up to
\* the await in handleSearch.
TimerFires ==
    /\ app.timer # Null
    /\ LET t == app.timer[1]
       IN  IF t.query = <<>>
           THEN app' = [app EXCEPT !.timer = Null, !.settled = Null]
           ELSE IF Trim(t.query) = <<>>
           THEN app' = [app EXCEPT !.timer = Null, !.settled = Null,
                                   !.searchResults = <<>>,
                                   !.isSearching = FALSE]
           ELSE /\ app.issued < MaxSearches
                /\ app' = [app EXCEPT !.timer = Null, !.settled = Null,
                                      !.isSearching = TRUE,
                                      !.issued = @ + 1,
                                      !.pending = @ \cup
                                        {[n |-> app.issued + 1,
                                          input |-> SearchRequest(t)]}]
    /\ UNCHANGED <<storeUp, articles, categories, categorySeq, preferences, clock, created, updates,
                   calls, op, req, res>>

\* setSearchResults(results); finally: setIsSearching(false)
SearchResolves ==
    /\ \E r \in app.pending :
        \E results \in SearchResponses(r.input) :
            app' = [app EXCEPT !.searchResults = results,
                               !.isSearching = FALSE,
                               !.pending = @ \ {r},
                               !.settled = Some([call |-> "searchArticles",
                                                 ok |-> TRUE])]
    /\ UNCHANGED <<storeUp, articles, categories, categorySeq, preferences, clock, created, updates,
                   calls, op, req, res>>

\* catch: console.error; finally: setIsSearching(false)
SearchRejects ==
    /\ \E r \in app.pending :
        app' = [app EXCEPT !.isSearching = FALSE,
                           !.pending = @ \ {r},
                           !.failed = TRUE,
                           !.settled = Some([call |-> "searchArticles",
                                             ok |-> FALSE])]
    /\ UNCHANGED <<storeUp, articles, categories, categorySeq, preferences, clock, created, updates,
                   calls, op, req, res>>

\* What App renders of a state: the spinner while loading, else the
\* carousel, the category bar, the heading and the list or its stand-in.
ArticlesToDisplay(a) ==
    IF a.searchQuery # <<>> THEN a.searchResults
    ELSE IF a.homepageData = Null THEN <<>>
    ELSE a.homepageData[1].latest_articles

Render(a) ==
    IF a.isLoading THEN [screen |-> "spinner"]
    ELSE [screen |-> "page",
          language |-> a.language,
          searchQuery |-> a.searchQuery,
          carousel |-> IF a.searchQuery = <<>> /\ a.homepageData # Null
                          /\ a.homepageData[1].featured_articles # <<>>
                       THEN Some(a.homepageData[1].featured_articles)
                       ELSE Null,
          categoryBar |-> IF a.homepageData # Null
                          THEN Some([categories |-> a.homepageData[1].categories,
                                     selected |-> a.selectedCategory])
                          ELSE Null,
          heading |-> IF a.searchQuery # <<>>
                      THEN [text |-> "Search Results",
                            count |-> Len(a.searchResults)]
                      ELSE [text |-> "Latest News"],
          list |-> IF a.isSearching THEN [text |-> "Searching..."]
                   ELSE IF ArticlesToDisplay(a) = <<>>
                        THEN [text |-> IF a.searchQuery # <<>>
                                       THEN "No news found"
                                       ELSE "No news available"]
                   ELSE [articles |-> ArticlesToDisplay(a)],
          loadMore |-> a.searchQuery = <<>> /\ ArticlesToDisplay(a) # <<>>]

\* The store the client looks at: an article in each language, one of them
\* in the one category.
ClientCreated ==
    <<[BaseArticleInput EXCEPT !.category_id = Some(1), !.published_at = 2],
      [BaseArticleInput EXCEPT !.title = <<"b">>, !.language = "en"]>>

ClientArticles ==
    [i \in 1..2 |->
        [id |-> i, title |-> ClientCreated[i].title, description |-> Null,
         content |-> Null, thumbnail_url |-> Null,
         source_url |-> "https://e.com/1", author |-> Null, source |-> "HN",
         score |-> 0, comments_count |-> 0,
         published_at |-> ClientCreated[i].published_at,
         created_at |-> 0, updated_at |-> 0, is_featured |-> FALSE,
         category_id |-> ClientCreated[i].category_id,
         language |-> ClientCreated[i].language, tags |-> JsonArray(<<>>)]]

ClientCategories ==
    <<[id |-> 1, name |-> "Tech", name_zh |-> Null, slug |-> "s1",
       description |-> Null, icon_name |-> Null, sort_order |-> 0,
       is_active |-> TRUE, created_at |-> 0]>>

InitClient ==
    /\ articles = ClientArticles
    /\ categories = ClientCategories
    /\ categorySeq = 1
    /\ preferences = <<>>
    /\ storeUp = TRUE
    /\ app = Mounted
    /\ clock = 0
    /\ created = ClientCreated
    /\ updates = 0
    /\ calls = [c \in Clients |-> NoCall]
    /\ op = ""
    /\ req = <<>>
    /\ res = <<>>

TypedQueries == {<<>>, <<"a">>, <<"b">>, <<" ">>}

NextClient ==
    \/ HomepageResolves
    \/ HomepageRejects
    \/ TypeQuery(TypedQueries)
    \/ ToggleLanguage
    \/ SelectCategory
    \/ TimerFires
    \/ SearchResolves
    \/ SearchRejects

SpecClient == InitClient /\ [][NextClient]_vars


\* The response of getHomepageData over a store with no articles.
EmptyHomepage ==
    [featured_articles |-> <<>>, latest_articles |-> <<>>,
     categories |-> <<>>, total_articles |-> 0]

Settled(call, ok) == app.settled = Some([call |-> call, ok |-> ok])

\* C24: after a getHomepageData or searchArticles call of the client has
\* rejected, what the client shows differs from what it would show had the
\* call succeeded with no articles.
C24_RejectionShowsAsFailure ==
    /\ Settled("searchArticles", FALSE) =>
            Render(app) # Render([app EXCEPT !.searchResults = <<>>])
    /\ Settled("getHomepageData", FALSE) =>
            Render(app) # Render([app EXCEPT !.homepageData =
                                                Some(EmptyHomepage)])

\* What the catch blocks do: a rejected call changes nothing the client
\* shows but the spinner it ends.
C24_RejectionOnlyEndsTheSpinner ==
    [][(app'.settled # Null /\ ~app'.settled[1].ok) =>
            /\ app'.searchResults = app.searchResults
            /\ app'.homepageData = app.homepageData
            /\ ~app'.isSearching
            /\ ~app'.isLoading]_vars

\* The input handleSearch would send for what the user has entered now.
CurrentRequest ==
    SearchRequest([query |-> app.searchQuery, language |-> app.language,
                   category |-> app.selectedCategory])

\* The timer has fired and no searchArticles query is in flight, none has
\* rejected, and the search box holds a query.
SearchesSettled ==
    /\ app.timer = Null
    /\ app.pending = {}
    /\ ~app.failed
    /\ Trim(app.searchQuery) # <<>>

\* C27: once the debounce timer has fired and every search request has
\* settled, searchResults is a response to the query, language and
\* category the client holds now.
C27_ResultsAnswerTheCurrentQuery ==
    SearchesSettled => app.searchResults \in SearchResponses(CurrentRequest)

\* What holds: as long as one request at most was sent, the settled results
\* answer the current query.
C27_OneRequestAnswersTheCurrentQuery ==
    (SearchesSettled /\ app.issued <= 1) =>
        app.searchResults \in SearchResponses(CurrentRequest)

\* C28: isSearching is true in every state in which a search request is in
\* flight.
C28_SearchingWhileInFlight ==
    app.pending # {} => app.isSearching

\* The other half of C28, which holds: with no request in flight
\* isSearching is false.
C28_NotSearchingWhenSettled ==
    app.pending = {} => ~app.isSearching

=============================================================================
